---- MODULE Spec2Model ----
(***************************************************************************)
(* Link Canvas: metadata refresh subsystem.                                *)
(*                                                                         *)
(* Part I   batch refresh orchestrator (lib/metadata-refresher.ts) over    *)
(*          the canvas store (store/canvas-store.ts).                      *)
(* Part II  the refresh dialog (MetadataRefreshDialog) driving the         *)
(*          orchestrator.                                                  *)
(* Part III the /api/metadata route handler and the client-side            *)
(*          fetchMetadata wrapper.                                         *)
(*                                                                         *)
(* Time is counted in days.  Strings the code inspects are modelled as     *)
(* sequences of tokens; a JavaScript `undefined` string is UNDEF.          *)
(***************************************************************************)
EXTENDS Integers, Sequences, FiniteSets, TLC

\* ------------------------------------------------------------------ bounds
MaxLinks == 6
MaxEnvOps == 1
MaxRuns == 2
MaxDialogLinks == 1
MaxLiveRuns == 1
MaxCloseTimers == 2
MaxStoreLinks == 3
MaxMutations == 2

\* ------------------------------------------------------- program constants
BATCH_SIZE == 5
BATCH_DELAY == 1000
RETRY_DELAYS == <<1000, 2000, 4000>>
MAX_RETRIES_short == 3 - 1
MAX_RETRIES == 3
METADATA_STALE_DAYS == 7

\* a JavaScript string is a sequence of tokens; `undefined` is UNDEF, '' is <<>>
UNDEF == <<"<undefined>">>

\* ===================================================================
\* Strings, URLs
\* ===================================================================
Min(a, b) == IF a < b THEN a ELSE b

\* F applied to the value of v (v is evaluated once)
Bind(v, F(_)) == CHOOSE y \in {F(x) : x \in {v}} : TRUE

\* JavaScript truthiness of a string-or-undefined value
Truthy(s) == s # UNDEF /\ s # <<>>

\* a || b
Or(a, b) == IF Truthy(a) THEN a ELSE b

WS == " "

\* String.prototype.trim
RECURSIVE TrimLeft(_)
TrimLeft(s) == IF s # <<>> /\ Head(s) = WS THEN TrimLeft(Tail(s)) ELSE s

RECURSIVE TrimRight(_)
TrimRight(s) ==
    IF s # <<>> /\ s[Len(s)] = WS THEN TrimRight(SubSeq(s, 1, Len(s) - 1)) ELSE s

Trim(s) == TrimRight(TrimLeft(s))

\* description?.trim()
TrimOpt(s) == IF s = UNDEF THEN UNDEF ELSE Trim(s)

\* s.includes(pat)
Includes(s, pat) ==
    \E k \in 0..(Len(s) - Len(pat)) : SubSeq(s, k + 1, k + Len(pat)) = pat

\* index of the first occurrence of token t in s, 0 when there is none
FirstIndex(s, t) ==
    IF \E k \in 1..Len(s) : s[k] = t
    THEN CHOOSE k \in 1..Len(s) : s[k] = t /\ \A j \in 1..(k - 1) : s[j] # t
    ELSE 0

LastIndex(s, t) ==
    IF \E k \in 1..Len(s) : s[k] = t
    THEN CHOOSE k \in 1..Len(s) : s[k] = t /\ \A j \in (k + 1)..Len(s) : s[j] # t
    ELSE 0

\* s.replace(t, ''): only the first occurrence is removed
ReplaceFirst(s, t) ==
    LET k == FirstIndex(s, t)
    IN  IF k = 0 THEN s ELSE SubSeq(s, 1, k - 1) \o SubSeq(s, k + 1, Len(s))

\* s.split(t).pop()
SplitPop(s, t) == SubSeq(s, LastIndex(s, t) + 1, Len(s))

\* s.split(t)[0]
SplitFirst(s, t) ==
    LET k == FirstIndex(s, t) IN IF k = 0 THEN s ELSE SubSeq(s, 1, k - 1)

SCHEME == <<"https:", "/", "/">>

HostTokens ==
    {"www.", "example.com", "youtube.com", "youtu.be", "reddit.com", "x.com",
     "twitter.com", "netfli"}

\* s.startsWith('http')
StartsWithHttp(s) == s # <<>> /\ s # UNDEF /\ s[1] \in {"https:", "http:"}

\* does `new URL(s)` succeed
IsValidURL(s) ==
    /\ Len(s) >= 4
    /\ SubSeq(s, 1, 3) = SCHEME
    /\ s[4] \in HostTokens

\* index of the last token of the host of a valid URL
HostEnd(s) ==
    CHOOSE k \in 4..Len(s) :
        /\ \A j \in 4..k : s[j] \in HostTokens
        /\ (k = Len(s) \/ s[k + 1] \notin HostTokens)

\* new URL(s).hostname
hostname(s) == SubSeq(s, 4, HostEnd(s))

\* new URL(s).pathname
pathname(s) ==
    LET rest == SubSeq(s, HostEnd(s) + 1, Len(s))
        p == SplitFirst(SplitFirst(rest, "?"), "#")
    IN  IF p = <<>> THEN <<"/">> ELSE p

\* new URL(s).searchParams.get(name), where name is a token such as "v="
searchParam(s, name) ==
    LET rest == SubSeq(s, HostEnd(s) + 1, Len(s))
        q == FirstIndex(rest, "?")
        query == SplitFirst(SubSeq(rest, q + 1, Len(rest)), "#")
        k == FirstIndex(query, name)
    IN  IF q = 0 \/ k = 0 \/ (k > 1 /\ query[k - 1] \notin {"&"}) THEN UNDEF
        ELSE SplitFirst(SubSeq(query, k + 1, Len(query)), "&")

\* urlObj.hostname.replace('www.', '')
DomainOf(s) == ReplaceFirst(hostname(s), "www.")

\* `https://www.google.com/s2/favicons?domain=${domain}&sz=64`
DefaultFavicon(domain) ==
    SCHEME \o <<"www.", "google.com", "/", "s2", "/", "favicons", "?", "domain=">>
        \o domain \o <<"&", "sz=64">>


\* ===================================================================
\* /api/metadata : extractors
\* ===================================================================
\* The outcome of one outbound fetch, as the awaiting code sees it:
\*   ok      a 2xx response whose body is `data`
\*   status  a non-2xx response
\*   error   the fetch rejects (DNS, connection, ...)
\*   abort   the fetch rejects because its AbortController was aborted
\*   badbody a 2xx response whose body response.json() cannot parse
Outcome(kind, data) == [kind |-> kind, data |-> data]

Returns(v) == [throws |-> FALSE, value |-> v]
Throws == [throws |-> TRUE, value |-> <<>>]

Metadata(url, title, description, imageUrl, favicon, domain) ==
    [url |-> url, title |-> title, description |-> description,
     imageUrl |-> imageUrl, favicon |-> favicon, domain |-> domain]

\* new URL(ref, base).href ; ok = FALSE when the constructor throws
ResolveRef(ref, base) ==
    IF ref = <<"/", "/">> THEN [ok |-> FALSE, href |-> ref]
    ELSE IF Head(ref) = "/" /\ Len(ref) >= 2 /\ ref[2] = "/"
         THEN [ok |-> TRUE, href |-> <<"https:">> \o ref]
    ELSE IF Head(ref) = "/"
         THEN [ok |-> TRUE, href |-> SCHEME \o hostname(base) \o ref]
    ELSE [ok |-> TRUE, href |-> SCHEME \o hostname(base) \o <<"/">> \o ref]

\* if (x && !x.startsWith('http')) { try { x = new URL(x, url).href } catch {} }
MakeAbsolute(x, url) ==
    IF Truthy(x) /\ ~StartsWithHttp(x)
    THEN (IF ResolveRef(x, url).ok THEN ResolveRef(x, url).href ELSE x)
    ELSE x

\* ---- video host (oEmbed)
YouTubeVideoId(url) ==
    IF Includes(url, <<"youtu.be", "/">>) THEN Or(SplitPop(url, "/"), <<>>)
    ELSE IF Includes(url, <<"youtube.com", "/", "watch">>)
         THEN Or(searchParam(url, "v="), <<>>)
    ELSE Or(SplitFirst(SplitPop(url, "v="), "&"), <<>>)

fetchYouTubeMetadata(url, o) ==
    IF YouTubeVideoId(url) = <<>> THEN Throws
    ELSE IF o.kind # "ok" THEN Throws
    ELSE Returns(Metadata(url,
            Or(o.data.title, <<"YouTube Video">>),
            Or(o.data.author_name, <<>>),
            Or(o.data.thumbnail_url, <<>>),
            SCHEME \o <<"www.", "youtube.com", "/", "favicon.ico">>,
            <<"youtube.com">>))

\* ---- forum (HTML scrape with its own fallback)
\* url.match(/reddit\.com\/r\/([^\/]+)\/comments\/([a-z0-9]+).../)?.[1] || 'unknown'
RedditSubreddit(url) ==
    LET hit(k) == /\ k + 8 <= Len(url)
                  /\ SubSeq(url, k, k + 3) = <<"reddit.com", "/", "r", "/">>
                  /\ url[k + 4] # "/"
                  /\ SubSeq(url, k + 5, k + 7) = <<"/", "comments", "/">>
                  /\ url[k + 8] \notin {"/", "?", "#"}
    IN  IF \E k \in 1..Len(url) : hit(k)
        THEN <<url[(CHOOSE k \in 1..Len(url) : hit(k)) + 4]>>
        ELSE <<"unknown">>

\* urlObj.pathname.match(/\/r\/([^\/]+)/)?.[1] || 'reddit'
RedditPathSubreddit(url) ==
    LET p == pathname(url)
        hit(k) == /\ k + 3 <= Len(p)
                  /\ SubSeq(p, k, k + 2) = <<"/", "r", "/">>
                  /\ p[k + 3] # "/"
    IN  IF \E k \in 1..Len(p) : hit(k)
        THEN <<p[(CHOOSE k \in 1..Len(p) : hit(k) /\ \A j \in 1..(k - 1) : ~hit(j)) + 3]>>
        ELSE <<"reddit">>

REDDIT_FAVICON == SCHEME \o <<"www.", "reddit.com", "/", "favicon.ico">>

RedditFallback(url) ==
    IF IsValidURL(url)
    THEN Metadata(url,
            <<"[", "r/">> \o RedditPathSubreddit(url) \o <<"] Post">>,
            <<"A post from ", "r/">> \o RedditPathSubreddit(url) \o <<" on Reddit">>,
            UNDEF, REDDIT_FAVICON, <<"reddit.com">>)
    ELSE Metadata(url, <<"Reddit Post">>, <<"A post from Reddit">>,
            UNDEF, REDDIT_FAVICON, <<"reddit.com">>)

\* every token is one character long except the long-text tokens
LONG_TEXT == "<250 characters>"

TokLen(t) == IF t = LONG_TEXT THEN 250 ELSE IF t = "<200 characters>" THEN 200 ELSE 1

RECURSIVE StrLen(_)
StrLen(s) == IF s = <<>> THEN 0 ELSE TokLen(Head(s)) + StrLen(Tail(s))

\* s.substring(0, 200) of a string longer than 200 characters
Substring200(s) ==
    IF Head(s) = LONG_TEXT THEN <<"<200 characters>">> ELSE SubSeq(s, 1, Min(Len(s), 200))

RedditTitle(page, subreddit) ==
    LET h1Text == Trim(page.h1)
        h1 == IF h1Text # <<>> /\ ~Includes(h1Text, <<"reddit">>) THEN h1Text ELSE UNDEF
        t == ReplaceFirst(ReplaceFirst(page.titleText, " : reddit.com"),
                          "Reddit - The heart of the internet")
    IN  Or(Or(Or(Or(Or(page.ogTitle, page.twTitle), h1), t), page.postH3),
           <<"[", "r/">> \o subreddit \o <<"] Post">>)

RedditDescription(page, subreddit) ==
    LET postContent == Or(Or(Or(Or(page.postContent, page.usertextBody), page.expando),
                             page.clickTextP), page.divP)
        d == IF Truthy(postContent)
             THEN (IF StrLen(postContent) > 200
                   THEN Substring200(postContent) \o <<"...">> ELSE postContent)
             ELSE Or(Or(page.ogDesc, page.twDesc), <<"Post from ", "r/">> \o subreddit)
    IN  IF Truthy(d) /\ ~Includes(d, <<"r/">> \o subreddit)
        THEN d \o <<" . ", "r/">> \o subreddit ELSE d

RedditImage(page, url) ==
    LET img == Or(page.ogImage, page.twImage)
        cdn == Truthy(img) /\ (Includes(img, <<"preview.redd.it">>) \/ Includes(img, <<"i.redd.it">>))
        a == IF cdn /\ SubSeq(img, 1, 2) = <<"/", "/">> THEN <<"https:">> \o img ELSE img
        b == IF cdn THEN SelectSeq(a, LAMBDA t : t # "?width=webp") ELSE a
    IN  IF ~Truthy(img) THEN img
        ELSE IF StartsWithHttp(b) THEN b
        ELSE IF ResolveRef(b, url).ok THEN ResolveRef(b, url).href
        ELSE UNDEF

\* the forum extractor rethrowing its failure as the video extractor does
fetchRedditMetadata_rethrow(url, o) ==
    IF o.kind # "ok" THEN Throws
    ELSE LET subreddit == RedditSubreddit(url)
             description == Trim(RedditDescription(o.data, subreddit))
         IN  Returns(Metadata(url,
                Trim(RedditTitle(o.data, subreddit)),
                Or(description, <<"A post from ", "r/">> \o subreddit),
                Or(RedditImage(o.data, url), UNDEF),
                REDDIT_FAVICON, <<"reddit.com">>))

fetchRedditMetadata(url, o) ==
    IF o.kind # "ok" THEN Returns(RedditFallback(url))
    ELSE LET subreddit == RedditSubreddit(url)
             description == Trim(RedditDescription(o.data, subreddit))
         IN  Returns(Metadata(url,
                Trim(RedditTitle(o.data, subreddit)),
                Or(description, <<"A post from ", "r/">> \o subreddit),
                Or(RedditImage(o.data, url), UNDEF),
                REDDIT_FAVICON, <<"reddit.com">>))



\* ---- social short form (oEmbed + HTML image fallback)
\* url.match(/(?:x\.com|twitter\.com)\/([^\/]+)\/status\/(\d+)/)
XMatchAt(s, k) ==
    /\ k + 5 <= Len(s)
    /\ s[k] \in {"x.com", "twitter.com"}
    /\ s[k + 1] = "/"
    /\ s[k + 2] \notin {"/"}
    /\ SubSeq(s, k + 3, k + 5) = <<"/", "status", "/">>
    /\ k + 6 <= Len(s)
    /\ s[k + 6] \in {"123"}

XTweetId(url) ==
    IF \E k \in 1..Len(url) : XMatchAt(url, k)
    THEN <<url[(CHOOSE k \in 1..Len(url) : XMatchAt(url, k)) + 6]>>
    ELSE UNDEF

XUsername(url) ==
    IF \E k \in 1..Len(url) : XMatchAt(url, k)
    THEN <<url[(CHOOSE k \in 1..Len(url) : XMatchAt(url, k)) + 2]>>
    ELSE <<"user">>

\* urlObj.pathname.match(/\/([^\/]+)\/status\/(\d+)/)?.[1] || 'user'
XPathUsername(url) ==
    LET p == pathname(url)
        hit(k) == /\ k + 5 <= Len(p)
                  /\ p[k] = "/" /\ p[k + 1] # "/"
                  /\ SubSeq(p, k + 2, k + 4) = <<"/", "status", "/">>
                  /\ p[k + 5] \in {"123"}
    IN  IF \E k \in 1..Len(p) : hit(k)
        THEN <<p[(CHOOSE k \in 1..Len(p) : hit(k) /\ \A j \in 1..(k - 1) : ~hit(j)) + 1]>>
        ELSE <<"user">>

X_FAVICON == SCHEME \o <<"x.com", "/", "favicon.ico">>

XFallback(url) ==
    IF IsValidURL(url)
    THEN Metadata(url,
            <<"Tweet by @">> \o XPathUsername(url),
            <<"A tweet from @">> \o XPathUsername(url) \o <<" on X">>,
            UNDEF, X_FAVICON, <<"x.com">>)
    ELSE Metadata(url, <<"X/Twitter Post">>, <<"A post from X">>,
            UNDEF, X_FAVICON, <<"x.com">>)

\* collapse runs of whitespace tokens
RECURSIVE CollapseWS(_)
CollapseWS(s) ==
    IF Len(s) < 2 THEN s
    ELSE IF s[1] = WS /\ s[2] = WS THEN CollapseWS(Tail(s))
    ELSE <<Head(s)>> \o CollapseWS(Tail(s))

\* the replace chain applied to the first paragraph of the embed markup
CleanTweet(text) ==
    Trim(CollapseWS(SelectSeq(text, LAMBDA t : t # "https://t.co/abc")))

\* the secondary fetch of the page, wanted only for its image
XImage(o2) ==
    IF o2.kind # "ok" THEN UNDEF
    ELSE LET img == Or(o2.data.ogImage, o2.data.twImage)
         IN  IF ~Truthy(img) THEN img
             ELSE IF SubSeq(img, 1, 2) = <<"/", "/">> THEN <<"https:">> \o img
             ELSE IF ~StartsWithHttp(img) THEN UNDEF
             ELSE img

fetchXMetadata(url, o, o2) ==
    IF XTweetId(url) = UNDEF THEN Returns(XFallback(url))
    ELSE IF o.kind # "ok" THEN Returns(XFallback(url))
    ELSE LET username == XUsername(url)
             tweetText == IF Truthy(o.data.html) /\ Truthy(o.data.firstP)
                          THEN CleanTweet(o.data.firstP) ELSE <<>>
             author == o.data.author_name
             title == Or(Or(tweetText, author), <<"Tweet by @">> \o username)
             d0 == Or(tweetText, <<"A tweet by ">> \o Or(author, username))
             description == IF Truthy(d0) /\ Truthy(author) /\ ~Includes(d0, author)
                            THEN d0 \o <<" . ">> \o author ELSE d0
         IN  Returns(Metadata(url, Trim(title), Trim(description),
                Or(XImage(o2), UNDEF), X_FAVICON, <<"x.com">>))

\* ---- generic (Open Graph / Twitter card / HTML)
\* the generic extraction with the Twitter-card title tried before Open-Graph
GenericMetadata_twFirst(url, domain, page) ==
    LET title == Or(Or(Or(page.twTitle, page.ogTitle), page.titleText), domain)
        description == Or(Or(page.ogDesc, page.twDesc), page.metaDesc)
        imageUrl == MakeAbsolute(Or(page.ogImage, page.twImage), url)
        favicon0 == MakeAbsolute(Or(Or(page.icon, page.shortcutIcon), page.appleIcon), url)
        favicon == IF ~Truthy(favicon0) THEN DefaultFavicon(domain) ELSE favicon0
    IN  Metadata(url, Trim(title), TrimOpt(description), Or(imageUrl, UNDEF),
                 favicon, domain)

GenericMetadata(url, domain, page) ==
    LET title == Or(Or(Or(page.ogTitle, page.twTitle), page.titleText), domain)
        description == Or(Or(page.ogDesc, page.twDesc), page.metaDesc)
        imageUrl == MakeAbsolute(Or(page.ogImage, page.twImage), url)
        favicon0 == MakeAbsolute(Or(Or(page.icon, page.shortcutIcon), page.appleIcon), url)
        favicon == IF ~Truthy(favicon0) THEN DefaultFavicon(domain) ELSE favicon0
    IN  Metadata(url, Trim(title), TrimOpt(description), Or(imageUrl, UNDEF),
                 favicon, domain)

\* ---- the universal last-resort record of the handler's catch block
UniversalFallback(urlParam) ==
    LET domain == IF IsValidURL(urlParam) THEN DomainOf(urlParam) ELSE <<"unknown">>
    IN  Metadata(urlParam, domain, UNDEF, UNDEF, DefaultFavicon(domain), domain)

\* ---- platform dispatch
IsYouTube(url) == Includes(url, <<"youtube.com">>) \/ Includes(url, <<"youtu.be">>)
IsReddit(url) == Includes(url, <<"reddit.com">>) \/ Includes(url, <<"www.", "reddit.com">>)
IsX(url) ==
    \/ Includes(url, <<"x.com">>) \/ Includes(url, <<"twitter.com">>)
    \/ Includes(url, <<"www.", "x.com">>) \/ Includes(url, <<"www.", "twitter.com">>)

\* the dispatch with the forum check moved in front of the video-host check
Strategy_forumFirst(url) ==
    IF IsReddit(url) THEN "ForumDiscussion"
    ELSE IF IsYouTube(url) THEN "VideoHost"
    ELSE IF IsX(url) THEN "SocialShortForm"
    ELSE "Generic"

Strategy(url) ==
    IF IsYouTube(url) THEN "VideoHost"
    ELSE IF IsReddit(url) THEN "ForumDiscussion"
    ELSE IF IsX(url) THEN "SocialShortForm"
    ELSE "Generic"

\* ---- GET /api/metadata, given the outcomes of the outbound fetches it awaits
\* request: [has |-> the url parameter is present, url |-> its decoded value]
Response(status, body) == [status |-> status, body |-> body]

ErrorBody(msg) == [error |-> msg]

\* the handler without its outer catch: an extractor's exception becomes a 500
GET_noCatch(request, o, o2) ==
    LET url == request.url
    IN  IF ~request.has \/ url = <<>>
        THEN Response(400, ErrorBody("URL parameter is required"))
        ELSE IF ~IsValidURL(url)
        THEN Response(400, ErrorBody("Invalid URL format"))
        ELSE LET r == CASE Strategy(url) = "VideoHost" -> fetchYouTubeMetadata(url, o)
                        [] Strategy(url) = "ForumDiscussion" -> fetchRedditMetadata(url, o)
                        [] Strategy(url) = "SocialShortForm" -> fetchXMetadata(url, o, o2)
                        [] OTHER ->
                            IF o.kind = "ok"
                            THEN Returns(GenericMetadata(url, DomainOf(url), o.data))
                            ELSE Throws
             IN  IF r.throws THEN Response(500, ErrorBody("Internal Server Error"))
                 ELSE Response(200, r.value)

GET(request, o, o2) ==
    LET url == request.url
    IN  IF ~request.has \/ url = <<>>
        THEN Response(400, ErrorBody("URL parameter is required"))
        ELSE IF ~IsValidURL(url)
        THEN Response(400, ErrorBody("Invalid URL format"))
        ELSE LET r == CASE Strategy(url) = "VideoHost" -> fetchYouTubeMetadata(url, o)
                        [] Strategy(url) = "ForumDiscussion" -> fetchRedditMetadata(url, o)
                        [] Strategy(url) = "SocialShortForm" -> fetchXMetadata(url, o, o2)
                        [] OTHER ->
                            IF o.kind = "ok"
                            THEN Returns(GenericMetadata(url, DomainOf(url), o.data))
                            ELSE Throws
             IN  IF r.throws THEN Response(200, UniversalFallback(url))
                 ELSE Response(200, r.value)


\* ---- sample upstream documents
PageFields ==
    {"ogTitle", "twTitle", "titleText", "ogDesc", "twDesc", "metaDesc", "ogImage",
     "twImage", "icon", "shortcutIcon", "appleIcon", "h1", "postH3", "postContent",
     "usertextBody", "expando", "clickTextP", "divP"}

\* cheerio: .attr() of a missing element is undefined, .text() is ''
TextFields == {"titleText", "h1", "postH3", "postContent", "usertextBody", "expando",
               "clickTextP", "divP"}

Page(over) ==
    [f \in PageFields |->
        IF f \in DOMAIN over THEN over[f]
        ELSE IF f \in TextFields THEN <<>> ELSE UNDEF]

EmptyPage == Page([titleText |-> <<>>])
OgPage == Page([ogTitle |-> <<"Example Article">>])
BlankTitlePage == Page([titleText |-> <<WS>>])
RichPage ==
    Page([twTitle |-> <<WS, "Rich", WS>>, titleText |-> <<"Doc title">>,
          metaDesc |-> <<"About">>, ogImage |-> <<"/", "img.png">>,
          shortcutIcon |-> <<"favicon.ico">>])

\* a page whose image and icon references do not resolve (new URL throws)
BrokenRefPage ==
    Page([ogTitle |-> <<"OG title">>, twTitle |-> <<"TW title">>, titleText |-> <<"Doc title">>,
          ogDesc |-> <<"OG description">>, twDesc |-> <<"TW description">>,
          ogImage |-> <<"/", "/">>, twImage |-> SCHEME \o <<"example.com", "/", "tw.png">>,
          icon |-> <<"/", "/">>, shortcutIcon |-> <<"favicon.ico">>])

Pages == {EmptyPage, OgPage, BlankTitlePage, RichPage, BrokenRefPage}

OEmbed(title, author, thumb, html, firstP) ==
    [title |-> title, author_name |-> author, thumbnail_url |-> thumb,
     html |-> html, firstP |-> firstP]

OEmbeds ==
    {OEmbed(<<"Video">>, <<"Author">>, SCHEME \o <<"i.ytimg.com", "/", "t.jpg">>,
            <<"<blockquote>">>, <<"Hello", WS, WS, "world", WS, "https://t.co/abc">>),
     OEmbed(UNDEF, UNDEF, UNDEF, UNDEF, <<>>)}

\* ===================================================================
\* State
\* ===================================================================
VARIABLES
    now,        \* the wall clock (new Date()), in days
    canvas,     \* useCanvasStore.getState().canvas : [id, loaded, links, connections, groups, viewport]
    runs,       \* one record per invocation of refreshMetadata
    dialog,     \* React state of MetadataRefreshDialog and its pending timers
    api,        \* one request to GET /api/metadata and the client call awaiting it
    envLeft,    \* remaining clock advances and user operations interleaved with a run
    remarked,   \* ids marked by markForMetadataRefresh and not refreshed since
    storage     \* the stored canvas list, the debounce timer, storage calls in flight

vars == <<now, canvas, runs, dialog, api, envLeft, remarked, storage>>

\* no outbound fetch made, no response sent
NoOutcome == Outcome("none", <<>>)

NoFetch == [needed |-> FALSE, timed |-> FALSE, what |-> "none"]

NoResponse == Response(0, <<>>)

\* no request to the endpoint has been made
BlankApi ==
    [pc |-> "idle", target |-> <<>>, request |-> [has |-> FALSE, url |-> <<>>],
     fetchNo |-> 0, awaited |-> NoFetch, o |-> NoOutcome, o2 |-> NoOutcome,
     response |-> NoResponse,
     client |-> "none", input |-> <<>>, result |-> Returns(<<>>),
     link |-> 0,        \* the placeholder link a single-add request is for
     strategy |-> "none"]   \* the branch of the platform dispatch taken

\* the invocations of refreshMetadata a behaviour has room for
RunIds == DOMAIN runs

\* ------------------------------------------------------------ canvas store
\* { ...link, ...updates }
Merge(link, updates) ==
    [f \in DOMAIN link |-> IF f \in DOMAIN updates THEN updates[f] ELSE link[f]]

\* updateLink(id, updates): a no-op without a canvas; replaces the matching link
updateLink(cv, id, updates) ==
    IF ~cv.loaded THEN cv
    ELSE [cv EXCEPT !.links =
            [n \in 1..Len(cv.links) |->
                IF cv.links[n].id = id THEN Merge(cv.links[n], updates)
                ELSE cv.links[n]]]

\* deleteLink(id): filters the link out
deleteLink(cv, id) ==
    IF ~cv.loaded THEN cv
    ELSE [cv EXCEPT !.links = SelectSeq(cv.links, LAMBDA l : l.id # id)]

\* ------------------------------------------------------------------ persistence
\* the canvases of this installation
CanvasIds == {1, 2}

\* storage with the given canvas list under the key 'canvases', no timer armed
\* and no call in flight
StorageOf(list) ==
    [canvases |-> list,
     timeout |-> <<>>,      \* the debounce timer: <<>> or <<the argument it holds>>
     ops |-> <<>>,          \* saveCanvas / deleteCanvas calls between their two awaits
     last |-> [c \in CanvasIds |-> <<>>],   \* per canvas, the last state handed to debouncedSave
     deleted |-> {}]        \* ids whose deleteCanvas has completed

\* debouncedSave(updatedCanvas): clears the pending timer and arms a new one
\* holding this argument (every store mutation returns before it when there
\* is no canvas)
debouncedSave(st, cv) ==
    IF ~cv.loaded THEN st
    ELSE [st EXCEPT !.timeout = <<cv>>, !.last[cv.id] = <<cv>>]

StoreIds(cv) == {cv.links[n].id : n \in 1..Len(cv.links)}

StoreLink(cv, id) == cv.links[CHOOSE n \in 1..Len(cv.links) : cv.links[n].id = id]

\* ---------------------------------------------------------- staleness policy
\* the comparison of line 36 with >= in place of >
needsMetadataRefresh_ge(link, t) ==
    \/ link.needsMetadataRefresh
    \/ link.metadataFetchedAt = <<>>
    \/ t - link.metadataFetchedAt[1] >= METADATA_STALE_DAYS

\* needsMetadataRefresh(link) evaluated when the clock reads t
needsMetadataRefresh(link, t) ==
    \/ link.needsMetadataRefresh
    \/ link.metadataFetchedAt = <<>>
    \/ t - link.metadataFetchedAt[1] > METADATA_STALE_DAYS

\* ===================================================================
\* Part I : batch refresh orchestrator
\* ===================================================================
IdleRun ==
    [pc |-> "idle", owner |-> "none", linksNeedingRefresh |-> <<>>, i |-> 0,
     batchPos |-> 0, retryCount |-> 0, successCount |-> 0, failedCount |-> 0,
     totalSuccess |-> 0, totalFailed |-> 0,
     calls |-> <<>>,    \* every callback invocation of the run, in order
     trace |-> <<>>,    \* attempts and waits of the item fetched last
     traceOf |-> 0,     \* the candidate index that trace belongs to
     items |-> <<>>,    \* per candidate: Pending / Succeeded / Failed and when
     batches |-> <<>>,  \* the length of every batch processBatch has returned from
     delays |-> <<>>,   \* every inter-batch delay awaited so far
     supplied |-> <<>>, \* the links argument of the call
     startedAt |-> 0]   \* the clock when the call was made

\* linksNeedingRefresh.slice(i, i + BATCH_SIZE)
Batch(run) ==
    SubSeq(run.linksNeedingRefresh, run.i + 1,
           Min(run.i + BATCH_SIZE, Len(run.linksNeedingRefresh)))

\* index, among the candidates, of the link being processed
\* a loop over the batch that starts from its end
Cursor_reversed(run) == run.i + Len(Batch(run)) - run.batchPos + 1

Cursor(run) == run.i + run.batchPos

CurrentLink(run) == run.linksNeedingRefresh[Cursor(run)]

\* what one call of fetch('/api/metadata?url=...') can produce for the client:
\* a rejection (network error, abort after 10 s) or a response
\* (the page behind a link answers the same way every time it is asked)
UpstreamOf(url) ==
    IF Includes(url, <<"gone">>) THEN Outcome("status", <<>>) ELSE Outcome("ok", OgPage)

AttemptResultsFor(url) ==
    {[kind |-> k, response |-> Response(0, <<>>)] : k \in {"network", "abort"}}
    \cup {[kind |-> "response", response |-> Response(502, <<>>)]}
    \cup {[kind |-> "response",
           response |-> GET([has |-> TRUE, url |-> url], UpstreamOf(url),
                            Outcome("error", <<>>))]}

\* the URLs of the stored links
GenericUrl == SCHEME \o <<"www.", "example.com", "/", "article">>
GoneUrl == SCHEME \o <<"www.", "example.com", "/", "gone">>
LinkUrls == {GenericUrl, GoneUrl}

AttemptResultsTable == [url \in LinkUrls |-> AttemptResultsFor(url)]

AttemptResults(url) == AttemptResultsTable[url]

\* does the try block of fetchLinkMetadata return { success: true, metadata }
AttemptSucceeds(res) == res.kind = "response" /\ res.response.status \in 200..299

\* RETRY_DELAYS[Math.min(retryCount, RETRY_DELAYS.length - 1)]
RetryDelay(retryCount) == RETRY_DELAYS[Min(retryCount, Len(RETRY_DELAYS) - 1) + 1]

\* the updates object of updateLinkWithMetadata
\* an update that spreads the whole link of the snapshot
MetadataUpdates_spread(link, metadata, t) ==
    [link EXCEPT !.title = Or(metadata.title, link.title),
                 !.description = metadata.description,
                 !.imageUrl = metadata.imageUrl,
                 !.favicon = metadata.favicon,
                 !.metadataFetchedAt = <<t>>,
                 !.needsMetadataRefresh = FALSE]

MetadataUpdates(link, metadata, t) ==
    [title |-> Or(metadata.title, link.title),
     description |-> metadata.description,
     imageUrl |-> metadata.imageUrl,
     favicon |-> metadata.favicon,
     metadataFetchedAt |-> <<t>>,
     needsMetadataRefresh |-> FALSE]

\* the updates object of the failure branch of processBatch
FailureUpdates_keepFlag(t) == [metadataFetchedAt |-> <<t>>]

\* a failure branch that also drops the stored metadata
FailureUpdates_wipe(t) ==
    [needsMetadataRefresh |-> FALSE, metadataFetchedAt |-> <<t>>, title |-> UNDEF,
     description |-> UNDEF, imageUrl |-> UNDEF, favicon |-> UNDEF]

FailureUpdates(t) == [needsMetadataRefresh |-> FALSE, metadataFetchedAt |-> <<t>>]

\* if (options.onError) options.onError(result.error || 'Unknown error', link.id)
OnErrorCall_silent(calls, link) == calls

OnErrorCall(calls, link) == Append(calls, <<"error", link.id>>)

\* the dialog's callbacks (options of handleRefresh) applied to its state
ApplyCall_keepRefreshing(d, call) ==
    CASE call[1] = "progress" -> [d EXCEPT !.processed = call[2], !.total = call[3]]
      [] call[1] = "complete" ->
            [d EXCEPT !.successCount = call[2], !.failedCount = call[3]]
      [] call[1] = "error" -> [d EXCEPT !.errors = Append(@, call[2])]

ApplyCall(d, call) ==
    CASE call[1] = "progress" -> [d EXCEPT !.processed = call[2], !.total = call[3]]
      [] call[1] = "complete" ->
            [d EXCEPT !.successCount = call[2], !.failedCount = call[3],
                      !.isRefreshing = FALSE]
      [] call[1] = "error" -> [d EXCEPT !.errors = Append(@, call[2])]

RECURSIVE ApplyCalls(_, _)
ApplyCalls(d0, cs0) ==
    Bind(<<d0, cs0>>, LAMBDA a :
        IF a[2] = <<>> THEN a[1] ELSE ApplyCalls(ApplyCall(a[1], Head(a[2])), Tail(a[2])))

\* the callbacks a step of a run issued, delivered to their owner
Deliver(d, before, after) ==
    IF after.owner = "dialog"
    THEN ApplyCalls(d, SubSeq(after.calls, Len(before.calls) + 1, Len(after.calls)))
    ELSE d

\* options.onProgress(processed, total) as processBatch computes its arguments
ProgressCall(run) ==
    <<"progress", run.successCount + run.failedCount, Len(Batch(run))>>

\* the end of one iteration of processBatch's loop, and what follows it
\* synchronously: the next item, the end of the batch, the end of the run
ItemDone_completePerBatch(run0) ==
    Bind(run0, LAMBDA run :
        LET r1 == [run EXCEPT !.calls = Append(@, ProgressCall(run))]
        IN  IF run.batchPos < Len(Batch(run))
            THEN [r1 EXCEPT !.batchPos = @ + 1, !.retryCount = 0]
            ELSE LET r2 == [r1 EXCEPT !.totalSuccess = @ + r1.successCount,
                                      !.totalFailed = @ + r1.failedCount,
                                      !.batches = Append(@, Len(Batch(r1))),
                                      !.calls = Append(@, <<"complete", r1.successCount,
                                                            r1.failedCount>>)]
                 IN  IF r2.i + BATCH_SIZE < Len(r2.linksNeedingRefresh)
                     THEN [r2 EXCEPT !.pc = "batchDelay",
                                     !.delays = Append(@, BATCH_DELAY)]
                     ELSE [r2 EXCEPT !.pc = "done"])

\* the loop of refreshMetadata without its inter-batch delay
ItemDone_noDelay(run0) ==
    Bind(run0, LAMBDA run :
        LET r1 == [run EXCEPT !.calls = Append(@, ProgressCall(run))]
        IN  IF run.batchPos < Len(Batch(run))
            THEN [r1 EXCEPT !.batchPos = @ + 1, !.retryCount = 0]
            ELSE LET r2 == [r1 EXCEPT !.totalSuccess = @ + r1.successCount,
                                      !.totalFailed = @ + r1.failedCount,
                                      !.batches = Append(@, Len(Batch(r1)))]
                 IN  IF r2.i + BATCH_SIZE < Len(r2.linksNeedingRefresh)
                     THEN [r2 EXCEPT !.i = @ + BATCH_SIZE, !.batchPos = 1,
                                     !.retryCount = 0, !.successCount = 0,
                                     !.failedCount = 0]
                     ELSE [r2 EXCEPT !.pc = "done",
                                     !.calls = Append(@, <<"complete", r2.totalSuccess,
                                                           r2.totalFailed>>)])

ItemDone(run0) ==
    Bind(run0, LAMBDA run :
        LET r1 == [run EXCEPT !.calls = Append(@, ProgressCall(run))]
        IN  IF run.batchPos < Len(Batch(run))
            THEN [r1 EXCEPT !.batchPos = @ + 1, !.retryCount = 0]
            ELSE LET r2 == [r1 EXCEPT !.totalSuccess = @ + r1.successCount,
                                      !.totalFailed = @ + r1.failedCount,
                                      !.batches = Append(@, Len(Batch(r1)))]
                 IN  IF r2.i + BATCH_SIZE < Len(r2.linksNeedingRefresh)
                     THEN [r2 EXCEPT !.pc = "batchDelay",
                                     !.delays = Append(@, BATCH_DELAY)]
                     ELSE [r2 EXCEPT !.pc = "done",
                                     !.calls = Append(@, <<"complete", r2.totalSuccess,
                                                           r2.totalFailed>>)])

\* refreshMetadata without the filter of line 141: every supplied link is taken
StartRun_all(links, owner) ==
    IF Len(links) = 0
    THEN [IdleRun EXCEPT !.pc = "done", !.owner = owner,
                         !.supplied = links, !.startedAt = now,
                         !.calls = <<<<"complete", 0, 0>>>>]
    ELSE [IdleRun EXCEPT !.pc = "fetch", !.owner = owner,
                         !.supplied = links, !.startedAt = now,
                         !.linksNeedingRefresh = links, !.batchPos = 1,
                         !.items = [n \in 1..Len(links) |->
                                        [state |-> "Pending", at |-> <<>>]]]

\* refreshMetadata(links, options): the synchronous part up to the first fetch
StartRun(links, owner) ==
    LET cands == SelectSeq(links, LAMBDA l : needsMetadataRefresh(l, now))
    IN  IF Len(cands) = 0
        THEN [IdleRun EXCEPT !.pc = "done", !.owner = owner,
                             !.supplied = links, !.startedAt = now,
                             !.calls = <<<<"complete", 0, 0>>>>]
        ELSE [IdleRun EXCEPT !.pc = "fetch", !.owner = owner,
                             !.supplied = links, !.startedAt = now,
                             !.linksNeedingRefresh = cands, !.batchPos = 1,
                             !.items = [n \in 1..Len(cands) |->
                                            [state |-> "Pending", at |-> <<>>]]]

\* one attempt of fetchLinkMetadata settles with result res: the run, the store
\* and the dialog afterwards.  (The catch of processBatch is not entered:
\* fetchLinkMetadata catches everything, updateLink does not throw and neither
\* do the callbacks the dialog passes.)
AfterAttempt(run, res, cv, d, t) ==
    LET link == CurrentLink(run)
        tr == IF run.retryCount = 0 THEN <<<<"attempt">>>>
              ELSE Append(run.trace, <<"attempt">>)
    IN  IF AttemptSucceeds(res) /\ res.response.body # <<>>
        THEN \* updateLinkWithMetadata; successCount++
             Bind(ItemDone([run EXCEPT
                        !.trace = tr, !.traceOf = Cursor(run),
                        !.successCount = @ + 1,
                        !.items[Cursor(run)] = [state |-> "Succeeded", at |-> <<t>>]]),
                  LAMBDA run2 :
                    [run |-> run2, stamped |-> {link.id},
                     canvas |-> updateLink(cv, link.id,
                                           MetadataUpdates(link, res.response.body, t)),
                     dialog |-> Deliver(d, run, run2)])
        ELSE IF ~AttemptSucceeds(res) /\ run.retryCount < MAX_RETRIES
        THEN \* await the retry delay, then fetchLinkMetadata(link, retryCount + 1)
             [run |-> [run EXCEPT !.pc = "backoff", !.traceOf = Cursor(run),
                                  !.trace = Append(tr, <<"wait", RetryDelay(run.retryCount)>>)],
              stamped |-> {}, canvas |-> cv, dialog |-> d]
        ELSE \* retries exhausted: clear the flag, stamp, failedCount++, onError
             Bind(ItemDone([run EXCEPT
                        !.trace = tr, !.traceOf = Cursor(run),
                        !.failedCount = @ + 1,
                        !.calls = OnErrorCall(@, link),
                        !.items[Cursor(run)] = [state |-> "Failed", at |-> <<t>>]]),
                  LAMBDA run2 :
                    [run |-> run2, stamped |-> {link.id},
                     canvas |-> updateLink(cv, link.id, FailureUpdates(t)),
                     dialog |-> Deliver(d, run, run2)])

FetchSettles(r) ==
    /\ runs[r].pc = "fetch"
    /\ \E res \in AttemptResults(CurrentLink(runs[r]).url) :
        \E after \in {AfterAttempt(runs[r], res, canvas, dialog, now)} :
            /\ runs' = [runs EXCEPT ![r] = after.run]
            /\ canvas' = after.canvas
            /\ dialog' = after.dialog
            /\ remarked' = remarked \ after.stamped
    /\ storage' = IF runs'[r].pc = "backoff" THEN storage
                   ELSE debouncedSave(storage, canvas')
    /\ UNCHANGED <<now, api, envLeft>>

\* the retry delay of fetchLinkMetadata elapses
BackoffElapses(r) ==
    /\ runs[r].pc = "backoff"
    /\ runs' = [runs EXCEPT ![r] = [@ EXCEPT !.pc = "fetch", !.retryCount = @ + 1]]
    /\ UNCHANGED <<now, canvas, dialog, api, envLeft, remarked, storage>>

\* the inter-batch delay of refreshMetadata elapses; the next batch starts
BatchDelayElapses(r) ==
    /\ runs[r].pc = "batchDelay"
    /\ runs' = [runs EXCEPT ![r] =
            [@ EXCEPT !.pc = "fetch", !.i = @ + BATCH_SIZE, !.batchPos = 1,
                      !.retryCount = 0, !.successCount = 0, !.failedCount = 0]]
    /\ UNCHANGED <<now, canvas, dialog, api, envLeft, remarked, storage>>

\* a caller other than the dialog invokes refreshMetadata(canvas.links, options)
\* with recording callbacks and awaits it
CallRefreshMetadata ==
    /\ canvas.loaded
    /\ \A r \in RunIds : runs[r].pc = "idle"
    /\ runs' = [runs EXCEPT ![1] = StartRun(canvas.links, "caller")]
    /\ UNCHANGED <<now, canvas, dialog, api, envLeft, remarked, storage>>

\* ---------------------------------------------------------------- environment
\* the links the user acts on while a run is in progress
EnvTargets == {1, 2}

\* time passes
Tick ==
    /\ envLeft > 0
    /\ now' = now + 1
    /\ envLeft' = envLeft - 1
    /\ UNCHANGED <<canvas, runs, dialog, api, remarked, storage>>

\* the user deletes a link card (store.deleteLink)
UserDeletesLink ==
    /\ envLeft > 0
    /\ \E id \in StoreIds(canvas) \cap EnvTargets :
        /\ canvas' = deleteLink(canvas, id)
        /\ remarked' = remarked \ {id}
    /\ envLeft' = envLeft - 1
    /\ storage' = debouncedSave(storage, canvas')
    /\ UNCHANGED <<now, runs, dialog, api>>

\* markForMetadataRefresh(linkId)
markForMetadataRefresh ==
    /\ envLeft > 0
    /\ \E id \in StoreIds(canvas) \cap EnvTargets :
        /\ canvas' = updateLink(canvas, id, [needsMetadataRefresh |-> TRUE])
        /\ remarked' = remarked \cup {id}
    /\ envLeft' = envLeft - 1
    /\ storage' = debouncedSave(storage, canvas')
    /\ UNCHANGED <<now, runs, dialog, api>>

\* ---------------------------------------------------------------- initial state
InitialNow == METADATA_STALE_DAYS + 1


\* a stored link: never fetched, explicitly flagged, stale, or (first link
\* only) fetched exactly seven days ago
InitialLink(n, freshFirst) ==
    LET kind == IF n = 1 /\ freshFirst THEN "fresh"
                ELSE IF n % 3 = 0 THEN "flagged"
                ELSE IF n % 3 = 1 THEN "never" ELSE "stale"
    IN  [id |-> n, url |-> IF n % 4 = 2 THEN GoneUrl ELSE GenericUrl,
         title |-> IF kind = "never" THEN <<"Loading...">> ELSE <<"Old title">>,
         description |-> IF kind = "never" THEN UNDEF ELSE <<"Old description">>,
         imageUrl |-> IF kind = "never" THEN UNDEF ELSE SCHEME \o <<"example.com", "/", "old.png">>,
         favicon |-> IF kind = "never" THEN UNDEF ELSE DefaultFavicon(<<"example.com">>),
         domain |-> <<"example.com">>,
         x |-> 0, width |-> 320,
         needsMetadataRefresh |-> (kind = "flagged"),
         metadataFetchedAt |-> CASE kind = "never" -> <<>>
                                 [] kind = "flagged" -> <<InitialNow - 1>>
                                 [] kind = "stale" -> <<InitialNow - METADATA_STALE_DAYS - 1>>
                                 [] OTHER -> <<InitialNow - METADATA_STALE_DAYS>>]

InitialDialog ==
    [isOpen |-> FALSE, isRefreshing |-> FALSE, processed |-> 0, total |-> 0,
     successCount |-> 0, failedCount |-> 0, errors |-> <<>>, closeTimers |-> 0]

Init ==
    /\ now = InitialNow
    /\ \E n \in 0..MaxLinks : \E freshFirst \in BOOLEAN :
        /\ freshFirst => n >= 1
        /\ canvas = [id |-> 1, loaded |-> TRUE,
                     links |-> [k \in 1..n |-> InitialLink(k, freshFirst)],
                     connections |-> <<>>, groups |-> <<>>,
                     viewport |-> [x |-> 0, y |-> 0, zoom |-> 1]]
    /\ runs = [r \in {1} |-> IdleRun]
    /\ dialog = InitialDialog
    /\ api = BlankApi
    /\ envLeft = MaxEnvOps
    /\ remarked = {}
    /\ storage = StorageOf(IF canvas.loaded THEN <<canvas>> ELSE <<>>)

Next ==
    \/ CallRefreshMetadata
    \/ \E r \in RunIds : FetchSettles(r)
    \/ \E r \in RunIds : BackoffElapses(r)
    \/ \E r \in RunIds : BatchDelayElapses(r)
    \/ Tick
    \/ UserDeletesLink
    \/ markForMetadataRefresh

Spec == Init /\ [][Next]_vars

\* ===================================================================
\* Part II : MetadataRefreshDialog
\* ===================================================================
\* the parent shows the dialog (isOpen prop becomes true)
ParentOpensDialog ==
    /\ ~dialog.isOpen
    /\ dialog' = [dialog EXCEPT !.isOpen = TRUE]
    /\ UNCHANGED <<now, canvas, runs, api, envLeft, remarked, storage>>

ResetCounters(d) ==
    [d EXCEPT !.processed = 0, !.total = 0, !.successCount = 0, !.failedCount = 0,
              !.errors = <<>>]

\* the state a call of handleRefresh leaves the run table in: refreshMetadata
\* has no notion of a run already in progress
NewRun(rs, r, cv) == [rs EXCEPT ![r] = StartRun(cv.links, "dialog")]

\* "Start Refresh" is rendered only while !isRefreshing
handleRefresh ==
    /\ dialog.isOpen
    /\ ~dialog.isRefreshing
    /\ LET d1 == ResetCounters([dialog EXCEPT !.isRefreshing = TRUE])
       IN  IF ~canvas.loaded
           THEN \* if (!canvas) return
                /\ dialog' = d1
                /\ UNCHANGED runs
           ELSE \E r \in RunIds :
                /\ runs[r].pc = "idle"
                /\ \A q \in 1..(r - 1) : runs[q].pc # "idle"
                /\ runs' = NewRun(runs, r, canvas)
                /\ dialog' = ApplyCalls(d1, runs'[r].calls)
    /\ UNCHANGED <<now, canvas, api, envLeft, remarked, storage>>

\* handleClose: from the Close button (disabled while isRefreshing) or from
\* the Dialog's onOpenChange (Escape, click outside, the X of DialogContent)
handleClose(via) ==
    /\ dialog.isOpen
    /\ via = "button" => ~dialog.isRefreshing
    /\ dialog.closeTimers < MaxCloseTimers
    /\ dialog' = [dialog EXCEPT !.isOpen = FALSE, !.closeTimers = @ + 1]
    /\ UNCHANGED <<now, canvas, runs, api, envLeft, remarked, storage>>

\* the 200 ms timer set by handleClose fires
CloseTimerFires ==
    /\ dialog.closeTimers > 0
    /\ dialog' = ResetCounters([dialog EXCEPT !.isRefreshing = FALSE,
                                              !.closeTimers = @ - 1])
    /\ UNCHANGED <<now, canvas, runs, api, envLeft, remarked, storage>>

\* the canvases of the dialog specifications hold at most MaxDialogLinks links,
\* fewer than BATCH_SIZE: a run is a single batch
InitDialogWith(maxRuns) ==
    /\ now = InitialNow
    /\ \E n \in 0..MaxDialogLinks : \E loaded \in BOOLEAN :
        /\ ~loaded => n = 0
        /\ canvas = [id |-> 1, loaded |-> loaded,
                     links |-> [k \in 1..n |-> InitialLink(k + 1, FALSE)],
                     connections |-> <<>>, groups |-> <<>>,
                     viewport |-> [x |-> 0, y |-> 0, zoom |-> 1]]
    /\ runs = [r \in 1..maxRuns |-> IdleRun]
    /\ dialog = InitialDialog
    /\ api = BlankApi
    /\ envLeft = 0
    /\ remarked = {}
    /\ storage = StorageOf(IF canvas.loaded THEN <<canvas>> ELSE <<>>)

InitDialog == InitDialogWith(MaxRuns)

InitLive == InitDialogWith(MaxLiveRuns)

NextDialog ==
    \/ ParentOpensDialog
    \/ handleRefresh
    \/ \E via \in {"button", "dismiss"} : handleClose(via)
    \/ CloseTimerFires
    \/ \E r \in RunIds : FetchSettles(r)
    \/ \E r \in RunIds : BackoffElapses(r)

SpecDialog == InitDialog /\ [][NextDialog]_vars

\* every await of a run resolves: each fetch of fetchLinkMetadata is bounded by
\* its 10 s abort timer and the retry delay is a plain timer
RunStep ==
    \E r \in RunIds : FetchSettles(r) \/ BackoffElapses(r)

FairSpecDialog == InitLive /\ [][NextDialog]_vars /\ WF_vars(RunStep)

\* ===================================================================
\* Part III : GET /api/metadata and fetchMetadata
\* ===================================================================
refreshVars == <<now, canvas, runs, dialog, envLeft, remarked, storage>>

\* ---- the query string between fetchMetadata and the handler
LONE_SURROGATE == "<lone surrogate>"

\* the escape of one token by encodeURIComponent
Escape(t) ==
    CASE t = "/" -> "%2F"
      [] t = "?" -> "%3F"
      [] t = "&" -> "%26"
      [] t = "#" -> "%23"
      [] t = WS -> "%20"
      [] t = "https:" -> "https%3A"
      [] t = "v=" -> "v%3D"
      [] t = "t=" -> "t%3D"
      [] t = "+" -> "%2B"
      [] OTHER -> t

\* the decoding of one token of a query value by URLSearchParams
Unescape(t) ==
    CASE t = "%2F" -> "/"
      [] t = "%3F" -> "?"
      [] t = "%26" -> "&"
      [] t = "%23" -> "#"
      [] t = "%20" -> WS
      [] t = "+" -> WS
      [] t = "https%3A" -> "https:"
      [] t = "v%3D" -> "v="
      [] t = "t%3D" -> "t="
      [] t = "%2B" -> "+"
      [] OTHER -> t

\* encodeURIComponent(s): a URIError on a lone surrogate
encodeURIComponent(s) ==
    IF \E k \in 1..Len(s) : s[k] = LONE_SURROGATE THEN Throws
    ELSE Returns([k \in 1..Len(s) |-> Escape(s[k])])

API_PATH == <<"/api/metadata">>

\* `/api/metadata?url=${encodeURIComponent(url)}`
EndpointUrl(encoded) == API_PATH \o <<"?", "url=">> \o encoded

\* request.nextUrl.searchParams.get('url') as [has, url]; has = FALSE is null
searchParamsGetUrl(target) ==
    LET q == FirstIndex(target, "?")
        query == SplitFirst(SubSeq(target, q + 1, Len(target)), "#")
        k == FirstIndex(query, "url=")
    IN  IF q = 0 \/ k = 0 \/ (k > 1 /\ query[k - 1] # "&")
        THEN [has |-> FALSE, url |-> <<>>]
        ELSE LET raw == SplitFirst(SubSeq(query, k + 1, Len(query)), "&")
             IN  [has |-> TRUE, url |-> [j \in 1..Len(raw) |-> Unescape(raw[j])]]

\* ---- the outbound fetches of the handler
Fetch(what, timed) == [needed |-> TRUE, timed |-> timed, what |-> what]

\* the first outbound fetch the handler awaits for a validated url, and whether
\* a setTimeout(() => controller.abort(), ...) is armed for its signal
FirstFetch(url) ==
    CASE Strategy(url) = "VideoHost" ->
            IF YouTubeVideoId(url) = <<>> THEN NoFetch ELSE Fetch("oembed", FALSE)
      [] Strategy(url) = "ForumDiscussion" -> Fetch("page", TRUE)
      [] Strategy(url) = "SocialShortForm" ->
            IF XTweetId(url) = UNDEF THEN NoFetch ELSE Fetch("oembed", TRUE)
      [] OTHER -> Fetch("page", TRUE)

\* the secondary fetch of fetchXMetadata, made once the oEmbed call has succeeded
SecondFetch(url, o) ==
    IF Strategy(url) = "SocialShortForm" /\ XTweetId(url) # UNDEF /\ o.kind = "ok"
    THEN Fetch("page", FALSE)
    ELSE NoFetch

\* what an upstream host can answer
PageOutcomes ==
    {Outcome("ok", p) : p \in Pages} \cup {Outcome("status", <<>>), Outcome("error", <<>>)}

OEmbedOutcomes ==
    {Outcome("ok", e) : e \in OEmbeds}
        \cup {Outcome("status", <<>>), Outcome("error", <<>>), Outcome("badbody", <<>>)}

UpstreamOutcomes(what) == IF what = "oembed" THEN OEmbedOutcomes ELSE PageOutcomes

\* ---- fetchMetadata (client)
\* the catch block of fetchMetadata
ClientFallback_noInnerTry(url) ==
    IF IsValidURL(url)
    THEN Returns(Metadata(url, DomainOf(url), UNDEF, UNDEF,
                          DefaultFavicon(DomainOf(url)), DomainOf(url)))
    ELSE Throws

\* the catch block with the placeholder of getDomainFromUrl ('') for 'unknown'
ClientFallback_emptyDomain(url) ==
    LET domain == IF IsValidURL(url) THEN DomainOf(url) ELSE <<>>
    IN  Returns(Metadata(url, domain, UNDEF, UNDEF, DefaultFavicon(domain), domain))

ClientFallback(url) ==
    LET domain == IF IsValidURL(url) THEN DomainOf(url) ELSE <<"unknown">>
    IN  Returns(Metadata(url, domain, UNDEF, UNDEF, DefaultFavicon(domain), domain))

\* how the awaited fetch of the endpoint and response.json() end for the client:
\* the handler's response as sent, a rejected fetch, a non-2xx answer of the
\* hosting platform, or a body that does not parse as JSON
Deliveries == {"asis", "rejects", "gateway502", "badbody"}

\* fetchMetadata(url) once its fetch has settled
fetchMetadataReturn(url, delivery, response) ==
    IF delivery = "asis" /\ response.status \in 200..299
    THEN Returns(response.body)
    ELSE ClientFallback(url)

\* ---- the request as a process
\* the handler answers
Respond(a) ==
    [a EXCEPT !.pc = "responded", !.awaited = NoFetch,
              !.response = GET(a.request, a.o, a.o2)]

\* the handler runs from its entry to its first await or to its response
HandlerStart(a, target) ==
    LET request == searchParamsGetUrl(target)
        valid == request.has /\ request.url # <<>> /\ IsValidURL(request.url)
        a1 == [a EXCEPT !.target = target, !.request = request,
                        !.strategy = IF valid THEN Strategy(request.url) ELSE "none"]
        first == IF valid THEN FirstFetch(request.url) ELSE NoFetch
    IN  IF first.needed
        THEN [a1 EXCEPT !.pc = "await", !.fetchNo = 1, !.awaited = first]
        ELSE Respond(a1)

\* the awaited outbound fetch settles with outcome o
FetchSettled(a, o) ==
    IF a.fetchNo = 1
    THEN LET a1 == [a EXCEPT !.o = o]
             second == SecondFetch(a.request.url, o)
         IN  IF second.needed
             THEN [a1 EXCEPT !.fetchNo = 2, !.awaited = second]
             ELSE Respond(a1)
    ELSE Respond([a EXCEPT !.o2 = o])

\* sample inputs
YouTubeShortUrl == SCHEME \o <<"youtu.be", "/", "abc">>
YouTubeWatchUrl ==
    SCHEME \o <<"www.", "youtube.com", "/", "watch", "?", "v=", "abc", "&", "t=", "1">>
YouTubeNoIdUrl == SCHEME \o <<"youtu.be", "/">>
RedditUrl ==
    SCHEME \o <<"www.", "reddit.com", "/", "r", "/", "tla", "/", "comments", "/", "abc">>
XUrl == SCHEME \o <<"x.com", "/", "lamport", "/", "status", "/", "123">>
XNoIdUrl == SCHEME \o <<"twitter.com", "/", "lamport">>
PlusUrl == SCHEME \o <<"example.com", "/", "a", "+", "b">>
\* URLs that contain the name of another platform's host after their own host
RedditAboutVideoUrl == RedditUrl \o <<"?", "ref=", "youtube.com">>
GenericMentionUrl == SCHEME \o <<"example.com", "/", "?", "ref=", "youtube.com">>
\* a host with "www." inside its first label (https://netfliwww.example.com/)
WwwInsideUrl == SCHEME \o <<"netfli", "www.", "example.com", "/">>

Inputs ==
    {<<>>, <<"not", WS, "a", WS, "url">>, <<LONE_SURROGATE>>, GenericUrl,
     YouTubeShortUrl, YouTubeWatchUrl, YouTubeNoIdUrl, RedditUrl, XUrl, XNoIdUrl,
     PlusUrl, RedditAboutVideoUrl, GenericMentionUrl, WwwInsideUrl,
     \* a forum URL without /comments/<post id>
     SCHEME \o <<"www.", "reddit.com", "/", "r", "/", "tla">>}

\* requests made to the endpoint by something other than fetchMetadata
DirectTargets ==
    {API_PATH, API_PATH \o <<"?", "url=">>, API_PATH \o <<"?", "other=", "1">>,
     API_PATH \o <<"?", "url=", "not", "+", "a", "+", "url">>,
     EndpointUrl(encodeURIComponent(GenericUrl).value)}

\* fetchMetadata(input) is called: encodeURIComponent, then the fetch is issued
\* and either reaches the handler or rejects
CallFetchMetadata ==
    /\ api.pc = "idle" /\ api.client = "none"
    /\ \E input \in Inputs : \E reaches \in BOOLEAN :
        LET enc == encodeURIComponent(input)
            a == [api EXCEPT !.input = input]
        IN  api' = IF enc.throws \/ ~reaches
                   THEN [a EXCEPT !.pc = "unsent", !.client = "returned",
                                  !.result = ClientFallback(input)]
                   ELSE HandlerStart([a EXCEPT !.client = "waiting"],
                                     EndpointUrl(enc.value))
    /\ UNCHANGED refreshVars

\* a request arrives that fetchMetadata did not make
DirectRequest ==
    /\ api.pc = "idle" /\ api.client = "none"
    /\ \E target \in DirectTargets : api' = HandlerStart(api, target)
    /\ UNCHANGED refreshVars

\* the upstream host answers the awaited fetch
UpstreamAnswers ==
    /\ api.pc = "await"
    /\ \E o \in UpstreamOutcomes(api.awaited.what) : api' = FetchSettled(api, o)
    /\ UNCHANGED refreshVars

\* the timer armed for the awaited fetch fires: controller.abort()
AbortTimerFires ==
    /\ api.pc = "await"
    /\ api.awaited.timed
    /\ api' = FetchSettled(api, Outcome("abort", <<>>))
    /\ UNCHANGED refreshVars

\* the client's await of fetch and response.json() settles
ClientReceives ==
    /\ api.pc = "responded" /\ api.client = "waiting"
    /\ \E delivery \in Deliveries :
        api' = [api EXCEPT !.client = "returned",
                           !.result = fetchMetadataReturn(api.input, delivery, api.response)]
    /\ UNCHANGED refreshVars

InitGet ==
    /\ now = InitialNow
    /\ canvas = [loaded |-> FALSE, links |-> <<>>]
    /\ runs = [r \in {1} |-> IdleRun]
    /\ dialog = InitialDialog
    /\ envLeft = 0
    /\ remarked = {}
    /\ storage = StorageOf(IF canvas.loaded THEN <<canvas>> ELSE <<>>)
    /\ api = BlankApi

NextGet ==
    \/ CallFetchMetadata
    \/ DirectRequest
    \/ UpstreamAnswers
    \/ AbortTimerFires
    \/ ClientReceives

SpecGet == InitGet /\ [][NextGet]_vars

\* ===================================================================
\* Properties of a refresh run
\* ===================================================================
CallsOf(run, name) == SelectSeq(run.calls, LAMBDA c : c[1] = name)

NumCandidates(run) == Len(run.linksNeedingRefresh)

IsPrefix(a, b) == Len(a) <= Len(b) /\ SubSeq(b, 1, Len(a)) = a

Started(run) == run.pc # "idle"

\* C1: over a run with n >= 1 candidates onProgress fires n times, `processed`
\* strictly increases from call to call across the whole run, `total` is n in
\* every call and the last call is (n, n).
C1_ProgressCountsWholeRun ==
    \A r \in RunIds :
        LET ps == CallsOf(runs[r], "progress")
            n == NumCandidates(runs[r])
        IN  /\ \A k \in 1..Len(ps) : ps[k][3] = n
            /\ \A k \in 1..(Len(ps) - 1) : ps[k][2] < ps[k + 1][2]
            /\ (runs[r].pc = "done" /\ n >= 1) =>
                    (Len(ps) = n /\ ps[Len(ps)] = <<"progress", n, n>>)

\* the attempts and waits of an item whose request fails every time
FullRetryTrace ==
    <<<<"attempt">>, <<"wait", 1000>>, <<"attempt">>, <<"wait", 2000>>,
      <<"attempt">>, <<"wait", 4000>>, <<"attempt">>>>

TraceItemState(run) == IF run.traceOf = 0 THEN "Pending" ELSE run.items[run.traceOf].state

\* C2: an item whose request fails every time is attempted exactly 4 times,
\* with waits of 1 s, 2 s and 4 s before the 2nd, 3rd and 4th attempt and none
\* after the 4th, and is then reported failed; once an item has succeeded or
\* failed no further attempt or wait is made for it.
C2_RetrySchedule ==
    /\ [](\A r \in RunIds :
            /\ IsPrefix(runs[r].trace, FullRetryTrace)
            /\ TraceItemState(runs[r]) = "Failed" => runs[r].trace = FullRetryTrace
            /\ TraceItemState(runs[r]) = "Succeeded" =>
                    runs[r].trace[Len(runs[r].trace)] = <<"attempt">>)
    /\ [][\A r \in RunIds :
            (TraceItemState(runs[r]) # "Pending" /\ runs'[r].traceOf = runs[r].traceOf)
                => runs'[r].trace = runs[r].trace]_vars

C2_Witness ==
    \E r \in RunIds :
        /\ TraceItemState(runs[r]) = "Failed"
        /\ Len(runs[r].trace) = 7
        /\ \E k \in 1..Len(runs[r].items) :
              k # runs[r].traceOf /\ runs[r].items[k].state = "Succeeded"

\* C3: when a run completes, every candidate still in the store and not marked
\* again since its attempt has its flag cleared and carries the time of its
\* attempt, whether it succeeded or failed, and so does not need a refresh
\* while that stamp is at most seven days old.
C3_CandidatesSettled ==
    \A r \in RunIds :
        runs[r].pc = "done" =>
            \A k \in 1..NumCandidates(runs[r]) :
                LET id == runs[r].linksNeedingRefresh[k].id
                IN  (id \in StoreIds(canvas) /\ id \notin remarked) =>
                        /\ ~StoreLink(canvas, id).needsMetadataRefresh
                        /\ StoreLink(canvas, id).metadataFetchedAt = runs[r].items[k].at
                        /\ runs[r].items[k].at # <<>>
                        /\ (now - runs[r].items[k].at[1] <= 7
                                => ~needsMetadataRefresh(StoreLink(canvas, id), now))

C3_Witness ==
    \E r \in RunIds :
        /\ runs[r].pc = "done"
        /\ \E k \in 1..NumCandidates(runs[r]) :
              /\ runs[r].items[k].state = "Failed"
              /\ runs[r].linksNeedingRefresh[k].needsMetadataRefresh
              /\ runs[r].linksNeedingRefresh[k].id \in StoreIds(canvas)
        /\ \E k \in 1..NumCandidates(runs[r]) :
              /\ runs[r].items[k].state = "Succeeded"
              /\ runs[r].linksNeedingRefresh[k].id \in StoreIds(canvas)

\* C9: onComplete fires exactly once per run, as its last callback, with
\* successCount + failedCount equal to the number of candidates; with no
\* candidate it fires once with (0, 0) and nothing else happens.
C9_CompleteOnce ==
    \A r \in RunIds :
        LET run == runs[r]
            cs == CallsOf(run, "complete")
        IN  /\ (Started(run) /\ run.pc # "done") => Len(cs) = 0
            /\ run.pc = "done" =>
                /\ Len(cs) = 1
                /\ run.calls[Len(run.calls)] = cs[1]
                /\ cs[1][2] + cs[1][3] = NumCandidates(run)
                /\ NumCandidates(run) = 0 =>
                        (run.calls = <<<<"complete", 0, 0>>>> /\ run.trace = <<>>)

C9_Witness ==
    \E r \in RunIds :
        /\ runs[r].pc = "done"
        /\ NumCandidates(runs[r]) > BATCH_SIZE
        /\ runs[r].totalFailed > 0
        /\ runs[r].totalSuccess > 0

\* the number of progress callbacks before position p of the callback log
NumProgressBefore(run, p) ==
    Cardinality({q \in 1..(p - 1) : run.calls[q][1] = "progress"})

\* C10: onError fires exactly once for every candidate counted failed, with
\* its link id and before the progress callback of that item, never for a
\* candidate that succeeded; the number of onError calls equals the failedCount
\* passed to onComplete.
C10_ErrorPerFailure ==
    \A r \in RunIds :
        LET run == runs[r]
            errorAt(k) == {p \in 1..Len(run.calls) :
                            run.calls[p] = <<"error", run.linksNeedingRefresh[k].id>>}
        IN  /\ \A k \in 1..NumCandidates(run) :
                IF run.items[k].state = "Failed"
                THEN /\ Cardinality(errorAt(k)) = 1
                     /\ \A p \in errorAt(k) :
                            /\ NumProgressBefore(run, p) = k - 1
                            /\ p < Len(run.calls)
                            /\ run.calls[p + 1][1] = "progress"
                ELSE errorAt(k) = {}
            /\ run.pc = "done" =>
                Len(CallsOf(run, "error")) = run.calls[Len(run.calls)][3]

C10_Witness ==
    \E r \in RunIds :
        /\ runs[r].pc = "done"
        /\ Len(CallsOf(runs[r], "error")) >= 2
        /\ runs[r].totalSuccess >= 1

\* ===================================================================
\* Properties of the dialog
\* ===================================================================
Active(run) == run.pc \notin {"idle", "done"}

\* C4: at most one refresh run is active at any time, whatever the user does
\* with the dialog.
C4_AtMostOneActiveRun ==
    Cardinality({r \in RunIds : Active(runs[r])}) <= 1

IsLinkMetadata(b) ==
    /\ {"url", "title", "domain"} \subseteq DOMAIN b
    /\ b.url # UNDEF /\ b.title # UNDEF /\ b.domain # UNDEF

\* C5: the response of GET /api/metadata is 400 "URL parameter is required"
\* when the url parameter is missing, 400 "Invalid URL format" when it does not
\* parse, and otherwise 200 with a LinkMetadata body for that url, whatever the
\* outbound fetches did; the status is never 5xx.
C5_ResponseContract ==
    api.pc = "responded" =>
        LET rq == api.request
            r == api.response
        IN  /\ r.status < 500
            /\ (~rq.has \/ rq.url = <<>>)
                    => r = Response(400, ErrorBody("URL parameter is required"))
            /\ (rq.has /\ rq.url # <<>> /\ ~IsValidURL(rq.url))
                    => r = Response(400, ErrorBody("Invalid URL format"))
            /\ (rq.has /\ rq.url # <<>> /\ IsValidURL(rq.url))
                    => (r.status = 200 /\ IsLinkMetadata(r.body) /\ r.body.url = rq.url)

C5_Witness ==
    /\ api.pc = "responded"
    /\ Strategy(api.request.url) = "VideoHost"
    /\ api.o.kind = "status"
    /\ api.response = Response(200, UniversalFallback(api.request.url))

\* C6: whatever the input string and whatever becomes of the call to the
\* endpoint, fetchMetadata returns a LinkMetadata value whose url is the input,
\* with title and domain present, and does not throw.
C6_FetchMetadataTotal ==
    api.client = "returned" =>
        /\ ~api.result.throws
        /\ IsLinkMetadata(api.result.value)
        /\ api.result.value.url = api.input

C6_Witness ==
    /\ api.client = "returned"
    /\ api.pc = "responded"
    /\ api.input = <<"not", WS, "a", WS, "url">>
    /\ api.response.status = 400
    /\ api.result.value.title = <<"unknown">>

\* C7: every outbound fetch the handler awaits has a timer armed that aborts
\* its signal, so that the handler answers even if the upstream host stays
\* silent.
C7_EveryFetchBounded ==
    api.pc = "await" => api.awaited.timed

\* ===================================================================
\* Part IV : links created and flags changed while the store is in use
\* ===================================================================
\* store.addLink(link): a no-op without a canvas; appends the link
addLink(cv, link) ==
    IF ~cv.loaded THEN cv ELSE [cv EXCEPT !.links = Append(@, link)]

\* the newLink literal of onDrop and of handleSubmit: neither sets
\* metadataFetchedAt nor needsMetadataRefresh
Placeholder(id, url, domain) ==
    [id |-> id, url |-> url, title |-> <<"Loading...">>, description |-> UNDEF,
     imageUrl |-> UNDEF, favicon |-> UNDEF, domain |-> domain, x |-> 0,
     width |-> 320,
     needsMetadataRefresh |-> FALSE, metadataFetchedAt |-> <<>>]

\* generateId(): an id no stored link has or had
generateId == MaxStoreLinks + (MaxEnvOps - envLeft) + 1

\* metadata.<f> of a parsed response body
Field(body, f) == IF f \in DOMAIN body THEN body[f] ELSE UNDEF

\* the updates both creators apply when the single-add fetch answers with JSON
SingleAddUpdates(metadata) ==
    [title |-> Field(metadata, "title"),
     description |-> Field(metadata, "description"),
     imageUrl |-> Field(metadata, "imageUrl"),
     favicon |-> Field(metadata, "favicon")]

\* a link is dropped on the canvas: placeholder added, metadata requested
onDrop ==
    /\ envLeft > 0
    /\ api.client = "none"
    /\ \E url \in {GenericUrl} :
        /\ IsValidURL(url)
        /\ canvas' = addLink(canvas, Placeholder(generateId, url, hostname(url)))
        /\ api' = [BlankApi EXCEPT !.client = "onDrop", !.input = url,
                                    !.link = generateId]
    /\ envLeft' = envLeft - 1
    /\ storage' = debouncedSave(storage, canvas')
    /\ UNCHANGED <<now, runs, dialog, remarked>>

\* the add-link dialog is submitted: placeholder added, metadata requested
handleSubmit ==
    /\ envLeft > 0
    /\ api.client = "none"
    /\ \E url \in {GenericUrl} :
        /\ IsValidURL(url)
        /\ canvas' = addLink(canvas, Placeholder(generateId, url,
                                                 ReplaceFirst(hostname(url), "www.")))
        /\ api' = [BlankApi EXCEPT !.client = "handleSubmit", !.input = url,
                                    !.link = generateId]
    /\ envLeft' = envLeft - 1
    /\ storage' = debouncedSave(storage, canvas')
    /\ UNCHANGED <<now, runs, dialog, remarked>>

\* the single-add fetch of onDrop / handleSubmit settles: a JSON body is
\* applied whatever its status; a rejection or a body that is not JSON goes
\* to the catch (onDrop: title := url; handleSubmit: nothing)
SingleAddSettles ==
    /\ api.client \in {"onDrop", "handleSubmit"}
    /\ \E res \in {x \in AttemptResults(api.input) : x.kind # "abort"} :
        IF res.kind = "response" /\ res.response.body # <<>>
        THEN /\ canvas' = updateLink(canvas, api.link, SingleAddUpdates(res.response.body))
             /\ storage' = debouncedSave(storage, canvas')
        ELSE IF api.client = "onDrop"
        THEN /\ canvas' = updateLink(canvas, api.link, [title |-> api.input])
             /\ storage' = debouncedSave(storage, canvas')
        ELSE UNCHANGED <<canvas, storage>>
    /\ api' = BlankApi
    /\ UNCHANGED <<now, runs, dialog, envLeft, remarked>>

\* clearMetadataRefreshFlag(linkId)
clearMetadataRefreshFlag ==
    /\ envLeft > 0
    /\ \E id \in StoreIds(canvas) :
        /\ canvas' = updateLink(canvas, id, [needsMetadataRefresh |-> FALSE])
        /\ remarked' = remarked \ {id}
    /\ envLeft' = envLeft - 1
    /\ storage' = debouncedSave(storage, canvas')
    /\ UNCHANGED <<now, runs, dialog, api>>

\* onNodeDragStop of a link card: updateLink(node.id, {x, y}); the card is
\* dropped one step to the right of where the store has it
onNodeDragStop ==
    /\ envLeft > 0
    /\ \E id \in StoreIds(canvas) \cap EnvTargets :
        canvas' = updateLink(canvas, id, [x |-> StoreLink(canvas, id).x + 1])
    /\ envLeft' = envLeft - 1
    /\ storage' = debouncedSave(storage, canvas')
    /\ UNCHANGED <<now, runs, dialog, api, remarked>>

InitStore ==
    /\ now = InitialNow
    /\ \E n \in 0..MaxStoreLinks :
        canvas = [id |-> 1, loaded |-> TRUE,
                  links |-> [k \in 1..n |-> InitialLink(k, TRUE)],
                  connections |-> <<>>, groups |-> <<>>,
                  viewport |-> [x |-> 0, y |-> 0, zoom |-> 1]]
    /\ runs = [r \in {1} |-> IdleRun]
    /\ dialog = InitialDialog
    /\ api = BlankApi
    /\ envLeft = MaxEnvOps
    /\ remarked = {}
    /\ storage = StorageOf(IF canvas.loaded THEN <<canvas>> ELSE <<>>)

NextStore ==
    \/ CallRefreshMetadata
    \/ \E r \in RunIds : FetchSettles(r)
    \/ \E r \in RunIds : BackoffElapses(r)
    \/ onDrop
    \/ handleSubmit
    \/ SingleAddSettles
    \/ Tick
    \/ markForMetadataRefresh
    \/ clearMetadataRefreshFlag
    \/ onNodeDragStop
    \/ UserDeletesLink

SpecStore == InitStore /\ [][NextStore]_vars

\* ===================================================================
\* Part V.  Persistence: the debounced save and the stored canvas list
\* ===================================================================
\* loadCanvas(id): getCanvas(id), and set({ canvas }) when it is stored; the
\* pending debounce timer is left as it is
loadCanvas ==
    /\ \E n \in 1..Len(storage.canvases) : canvas' = storage.canvases[n]
    /\ UNCHANGED <<now, runs, dialog, api, envLeft, remarked, storage>>

\* the debounce timer fires: timeout = null, then func(...args), which calls
\* saveCanvas(canvas); saveCanvas reads the list and suspends before its set
later ==
    /\ storage.timeout # <<>>
    /\ storage' = [storage EXCEPT
            !.timeout = <<>>,
            !.ops = Append(@, [kind |-> "save", canvas |-> storage.timeout[1],
                               id |-> storage.timeout[1].id,
                               list |-> storage.canvases])]
    /\ UNCHANGED <<now, canvas, runs, dialog, api, envLeft, remarked>>

\* saveCanvas resumes: the canvas replaces the entry with its id in the list
\* that was read, or is pushed to it, and the list is written back
saveCanvas(i) ==
    /\ storage.ops[i].kind = "save"
    /\ LET op == storage.ops[i]
           at == {n \in 1..Len(op.list) : op.list[n].id = op.id}
       IN  storage' = [storage EXCEPT
                !.canvases = IF at # {}
                             THEN [n \in 1..Len(op.list) |->
                                        IF n \in at THEN op.canvas ELSE op.list[n]]
                             ELSE Append(op.list, op.canvas),
                !.ops = SubSeq(@, 1, i - 1) \o SubSeq(@, i + 1, Len(@))]
    /\ UNCHANGED <<now, canvas, runs, dialog, api, envLeft, remarked>>

\* the user confirms the deletion of a listed canvas on the home page:
\* deleteCanvas(id) reads the list and suspends before its set
handleDeleteCanvas ==
    /\ \E n \in 1..Len(storage.canvases) :
        LET id == storage.canvases[n].id
        IN  /\ id \notin storage.deleted
            /\ \A k \in 1..Len(storage.ops) :
                    ~(storage.ops[k].kind = "delete" /\ storage.ops[k].id = id)
            /\ storage' = [storage EXCEPT
                    !.ops = Append(@, [kind |-> "delete", canvas |-> <<>>, id |-> id,
                                       list |-> storage.canvases])]
    /\ UNCHANGED <<now, canvas, runs, dialog, api, envLeft, remarked>>

\* deleteCanvas resumes: the list that was read is written back without the
\* canvas, and the call completes
deleteCanvas(i) ==
    /\ storage.ops[i].kind = "delete"
    /\ LET op == storage.ops[i]
       IN  storage' = [storage EXCEPT
                !.canvases = SelectSeq(op.list, LAMBDA c : c.id # op.id),
                !.ops = SubSeq(@, 1, i - 1) \o SubSeq(@, i + 1, Len(@)),
                !.deleted = @ \cup {op.id}]
    /\ UNCHANGED <<now, canvas, runs, dialog, api, envLeft, remarked>>

\* two stored canvases of one link each, the first of them open; the store
\* mutation the user issues is the drag of a card (every mutation, those of a
\* refresh run included, ends in the same debouncedSave call)
InitSave ==
    /\ now = InitialNow
    /\ storage = StorageOf([c \in 1..2 |->
            [id |-> c, loaded |-> TRUE, links |-> <<InitialLink(c, FALSE)>>,
             connections |-> <<>>, groups |-> <<>>,
             viewport |-> [x |-> 0, y |-> 0, zoom |-> 1]]])
    /\ canvas = storage.canvases[1]
    /\ runs = [r \in {1} |-> IdleRun]
    /\ dialog = InitialDialog
    /\ api = BlankApi
    /\ envLeft = MaxMutations
    /\ remarked = {}

NextSave ==
    \/ onNodeDragStop
    \/ loadCanvas
    \/ later
    \/ \E i \in 1..Len(storage.ops) : saveCanvas(i)
    \/ handleDeleteCanvas
    \/ \E i \in 1..Len(storage.ops) : deleteCanvas(i)

SpecSave == InitSave /\ [][NextSave]_vars

\* ===================================================================
\* Properties of batching and ordering
\* ===================================================================
Settled(run) == {k \in 1..NumCandidates(run) : run.items[k].state # "Pending"}

\* ceil(n / 5)
NumBatches(n) == (n + 4) \div 5

\* C11: the n candidates are processed in ceil(n/5) consecutive batches of 5,
\* the last holding the remainder; every candidate is processed exactly once,
\* in the batch its position assigns it to; a delay of 1 s is awaited after
\* every batch but the last.
C11_BatchPartition ==
    /\ [](\A r \in RunIds :
            LET run == runs[r]
                n == NumCandidates(run)
                nb == Len(run.batches)
            IN  /\ \A b \in 1..nb :
                        run.batches[b] = IF b < NumBatches(n) THEN 5 ELSE n - 5 * (b - 1)
                /\ \A k \in 1..n : k \in Settled(run) =>
                        (k - 1) \div 5 + 1 <= nb + (IF run.pc = "done" THEN 0 ELSE 1)
                /\ \A k \in 1..n : (k - 1) \div 5 + 1 <= nb => k \in Settled(run)
                /\ run.pc \in {"fetch", "backoff"} =>
                        (run.delays = [b \in 1..nb |-> 1000] /\ nb < NumBatches(n))
                /\ run.pc = "batchDelay" =>
                        (run.delays = [b \in 1..nb |-> 1000] /\ nb < NumBatches(n))
                /\ (run.pc = "done" /\ n >= 1) =>
                        /\ nb = NumBatches(n)
                        /\ run.delays = [b \in 1..(nb - 1) |-> 1000]
                        /\ Settled(run) = 1..n
                        /\ Len(CallsOf(run, "progress")) = n)
    /\ [][\A r \in RunIds : \A k \in 1..NumCandidates(runs[r]) :
            (runs'[r].pc # "idle" /\ k \in Settled(runs[r]))
                => runs'[r].items[k] = runs[r].items[k]]_vars

C11_Witness ==
    \E r \in RunIds :
        /\ runs[r].pc = "done"
        /\ runs[r].batches = <<5, 1>>
        /\ runs[r].delays = <<1000>>

\* C12: within one run the items are fetched one at a time and in list order,
\* within a batch and across batches: whenever an attempt or a retry delay of
\* an item is outstanding, every earlier candidate is settled and no later one
\* has been touched; every step settles at most one item, the next in the
\* list, and makes exactly one progress call for it.
C12_SequentialInOrder ==
    /\ [](\A r \in RunIds :
            LET run == runs[r]
                n == NumCandidates(run)
                done == Cardinality(Settled(run))
            IN  /\ Settled(run) = 1..done
                /\ Len(CallsOf(run, "progress")) = done
                /\ run.pc \in {"fetch", "backoff"} =>
                        /\ Cursor(run) = done + 1
                        /\ Cursor(run) <= n
                        /\ run.retryCount > 0 => run.traceOf = Cursor(run)
                /\ run.pc \in {"batchDelay", "done"} => run.traceOf = done
                /\ \A j, k \in Settled(run) :
                        j < k => run.items[j].at[1] <= run.items[k].at[1])
    /\ [][\A r \in RunIds :
            LET old == Settled(runs[r])
                new == Settled(runs'[r]) \ old
            IN  runs'[r].pc # "idle" =>
                    /\ Cardinality(new) <= 1
                    /\ new # {} =>
                            /\ runs[r].pc = "fetch"
                            /\ new = {Cardinality(old) + 1}
                            /\ new = {Cursor(runs[r])}
                            /\ runs[r].linksNeedingRefresh[Cursor(runs[r])]
                                    = runs'[r].linksNeedingRefresh[Cardinality(old) + 1]
                    /\ Len(CallsOf(runs'[r], "progress"))
                            = Len(CallsOf(runs[r], "progress")) + Cardinality(new)]_vars

\* the sixth candidate is being retried in the second batch
C12_Witness ==
    \E r \in RunIds :
        /\ runs[r].pc = "backoff"
        /\ Cursor(runs[r]) = 6
        /\ Settled(runs[r]) = 1..5

\* ===================================================================
\* Properties of the candidate set
\* ===================================================================
CandidateIds(run) == {run.linksNeedingRefresh[k].id : k \in 1..NumCandidates(run)}

\* C13: the candidates of a run are the supplied links that needed a refresh
\* when the call was made, and stay so for the whole run: a link that becomes
\* stale, is marked or is added while the run is in progress is never stamped
\* by it, and a candidate is still fetched and settled after its flag was
\* cleared in the store.
C13_CandidatesFixedAtStart ==
    /\ [](\A r \in RunIds :
            LET run == runs[r]
            IN  run.pc # "idle" =>
                    /\ run.linksNeedingRefresh =
                            SelectSeq(run.supplied,
                                      LAMBDA l : needsMetadataRefresh(l, run.startedAt))
                    /\ run.pc \in {"fetch", "backoff"} =>
                            CurrentLink(run).id \in CandidateIds(run)
                    /\ run.pc = "done" => Settled(run) = 1..NumCandidates(run))
    /\ [][\A r \in RunIds :
            /\ runs[r].pc # "idle" =>
                    runs'[r].linksNeedingRefresh = runs[r].linksNeedingRefresh
            /\ \A id \in StoreIds(canvas) \cap StoreIds(canvas') :
                    StoreLink(canvas', id).metadataFetchedAt
                        # StoreLink(canvas, id).metadataFetchedAt
                    => /\ runs[r].pc = "fetch"
                       /\ CurrentLink(runs[r]).id = id
                       /\ needsMetadataRefresh(CurrentLink(runs[r]), runs[r].startedAt)
                       /\ Cursor(runs[r]) \in Settled(runs'[r])]_vars

\* the third link was flagged at the start; its flag has been cleared in the
\* store since, and the run has fetched it all the same and is retrying it
C13_Witness ==
    \E r \in RunIds :
        /\ runs[r].pc = "backoff"
        /\ CurrentLink(runs[r]).needsMetadataRefresh
        /\ CurrentLink(runs[r]).id \in StoreIds(canvas)
        /\ ~needsMetadataRefresh(StoreLink(canvas, CurrentLink(runs[r]).id), now)

\* ===================================================================
\* Properties of the staleness policy
\* ===================================================================
\* C14: the stored needsMetadataRefresh flag of every link is true whenever
\* the link has no metadataFetchedAt, has been marked for refresh and not
\* been fetched since, or was fetched more than 7 days ago; this includes
\* the placeholder links of onDrop and handleSubmit, before and after their
\* single-add fetch has settled.
C14_FlagTracksStaleness ==
    \A n \in 1..Len(canvas.links) :
        LET link == canvas.links[n]
        IN  (\/ link.metadataFetchedAt = <<>>
             \/ link.id \in remarked
             \/ now - link.metadataFetchedAt[1] > 7)
            => link.needsMetadataRefresh

\* a link fetched `age` days before the clock reads t, with its flag as given
Probe(flag, age, t) == [needsMetadataRefresh |-> flag, metadataFetchedAt |-> <<t - age>>]

\* C15: needsMetadataRefresh(link) is true exactly when the flag is set, or
\* there is no metadataFetchedAt, or the age is strictly more than 7 days:
\* true at 8 days, false at 6 and at 7; the call that applies it to the
\* supplied links changes neither the store nor the clock.
C15_StalenessPredicate ==
    /\ [](/\ \A n \in 1..Len(canvas.links) :
                LET link == canvas.links[n]
                IN  needsMetadataRefresh(link, now) <=>
                        \/ link.needsMetadataRefresh
                        \/ link.metadataFetchedAt = <<>>
                        \/ now - link.metadataFetchedAt[1] > 7
           /\ \A age \in 0..now : \A flag \in BOOLEAN :
                needsMetadataRefresh(Probe(flag, age, now), now) <=> (flag \/ age > 7)
           /\ needsMetadataRefresh(Probe(FALSE, 8, now), now)
           /\ ~needsMetadataRefresh(Probe(FALSE, 7, now), now)
           /\ ~needsMetadataRefresh(Probe(FALSE, 6, now), now)
           /\ needsMetadataRefresh([Probe(FALSE, 0, now) EXCEPT !.metadataFetchedAt = <<>>],
                                   now)
           /\ \A r \in RunIds :
                LET ids == CandidateIds(runs[r])
                IN  \A k \in 1..Len(runs[r].supplied) :
                        LET given == runs[r].supplied[k]
                        IN  given.id \in ids <=>
                                \/ given.needsMetadataRefresh
                                \/ given.metadataFetchedAt = <<>>
                                \/ runs[r].startedAt - given.metadataFetchedAt[1] > 7)
    /\ [][\A r \in RunIds :
            (runs[r].pc = "idle" /\ runs'[r].pc # "idle")
                => (canvas' = canvas /\ now' = now)]_vars

\* a run was started over a link fetched exactly 7 days before (left out) and
\* a link fetched exactly 8 days before (taken)
C15_Witness ==
    \E r \in RunIds : \E j, k \in 1..Len(runs[r].supplied) :
        LET run == runs[r]
        IN  /\ run.pc # "idle"
            /\ ~run.supplied[j].needsMetadataRefresh
            /\ run.supplied[j].metadataFetchedAt = <<run.startedAt - 7>>
            /\ run.supplied[j].id \notin CandidateIds(run)
            /\ ~run.supplied[k].needsMetadataRefresh
            /\ run.supplied[k].metadataFetchedAt = <<run.startedAt - 8>>
            /\ run.supplied[k].id \in CandidateIds(run)

\* ===================================================================
\* Properties of an abandoned run
\* ===================================================================
\* C16: while the dialog that started a run is closed and the run has not
\* completed, no step adds an onProgress, onError or onComplete call of that
\* run.
C16_NoCallbacksAfterAbandon ==
    [][\A r \in RunIds :
        (~dialog.isOpen /\ Active(runs[r]) /\ runs[r].owner = "dialog")
            => runs'[r].calls = runs[r].calls]_vars

\* ===================================================================
\* Properties of the platform dispatch
\* ===================================================================
\* C17: every validated URL is dispatched to exactly one of the four
\* strategies, in the priority video host, forum, social, generic: a URL that
\* matches several patterns goes to the first of them, generic is taken only
\* when none matches, and the first outbound fetch is the one the chosen
\* extractor makes.
C17_DispatchPriority ==
    LET url == api.request.url
    IN  /\ api.strategy \in {"none", "VideoHost", "ForumDiscussion", "SocialShortForm", "Generic"}
        /\ api.strategy = "none" <=>
                (api.pc \in {"idle", "unsent"} \/ ~api.request.has \/ url = <<>> \/ ~IsValidURL(url))
        /\ api.strategy = "VideoHost" => IsYouTube(url)
        /\ api.strategy = "ForumDiscussion" => (IsReddit(url) /\ ~IsYouTube(url))
        /\ api.strategy = "SocialShortForm" => (IsX(url) /\ ~IsYouTube(url) /\ ~IsReddit(url))
        /\ api.strategy = "Generic" => (~IsYouTube(url) /\ ~IsReddit(url) /\ ~IsX(url))
        /\ (api.pc = "await" /\ api.fetchNo = 1) =>
                api.awaited = CASE api.strategy = "VideoHost" -> Fetch("oembed", FALSE)
                                [] api.strategy = "ForumDiscussion" -> Fetch("page", TRUE)
                                [] api.strategy = "SocialShortForm" -> Fetch("oembed", TRUE)
                                [] OTHER -> Fetch("page", TRUE)
        /\ (api.pc = "responded" /\ api.strategy = "VideoHost" /\ api.o.kind = "ok")
                => api.response.body.domain = <<"youtube.com">>
        /\ (api.pc = "responded" /\ api.strategy = "ForumDiscussion")
                => api.response.body.domain = <<"reddit.com">>

\* a forum URL that also contains the video host's name was handled by the
\* video-host extractor
C17_Witness ==
    /\ api.pc = "responded"
    /\ api.request.url = RedditAboutVideoUrl
    /\ api.strategy = "VideoHost"
    /\ api.o.kind = "ok"
    /\ api.response.body.domain = <<"youtube.com">>

\* C18: the strategy taken for a validated URL is the one its host alone
\* determines: path, query string and fragment have no part in the choice.
C18_StrategyByHostOnly ==
    api.strategy # "none" =>
        api.strategy = Strategy(SCHEME \o hostname(api.request.url))

\* ===================================================================
\* Properties of the metadata record
\* ===================================================================
\* the host with a leading "www." removed and nothing else
StripLeadingWww(host) == IF host # <<>> /\ Head(host) = "www." THEN Tail(host) ELSE host

\* C19: the domain of the record the generic path of the handler answers with
\* (extraction or universal fallback), and of the record fetchMetadata returns
\* for a URL of no special platform, is the host of the URL without a leading
\* "www.": no other "www." is removed from it.
C19_DomainIsHostSansWww ==
    /\ (api.pc = "responded" /\ api.strategy = "Generic")
            => api.response.body.domain = StripLeadingWww(hostname(api.request.url))
    /\ (api.client = "returned" /\ IsValidURL(api.input) /\ Strategy(api.input) = "Generic")
            => api.result.value.domain = StripLeadingWww(hostname(api.input))

\* a value that is absent or begins with a scheme
AbsentOrAbsolute(x) == x = UNDEF \/ StartsWithHttp(x)

\* C20: in every metadata record the handler answers with, imageUrl and
\* favicon are absent or absolute: never an empty string and never a
\* reference left unresolved.
C20_ImageAndFaviconAbsolute ==
    (api.pc = "responded" /\ api.response.status = 200) =>
        /\ AbsentOrAbsolute(api.response.body.imageUrl)
        /\ AbsentOrAbsolute(api.response.body.favicon)

\* C21: the title of every metadata record the handler answers with, and of
\* every record fetchMetadata returns, is a non-empty string: a page whose
\* title sources are blank gets the domain as its title.
C21_TitleNonEmpty ==
    /\ (api.pc = "responded" /\ api.response.status = 200)
            => (api.response.body.title # <<>> /\ api.response.body.title # UNDEF)
    /\ api.client = "returned"
            => (api.result.value.title # <<>> /\ api.result.value.title # UNDEF)

\* ===================================================================
\* Properties of the degraded records
\* ===================================================================
\* the last-resort record for a URL whose domain is d
LastResort(url, d) ==
    [url |-> url, title |-> d, description |-> UNDEF, imageUrl |-> UNDEF,
     favicon |-> SCHEME \o <<"www.", "google.com", "/", "s2", "/", "favicons", "?", "domain=">>
                    \o d \o <<"&", "sz=64">>,
     domain |-> d]

\* C22: the degraded record answered after an extractor failure is fixed by
\* the strategy taken: the last-resort record for the video-host and generic
\* extractors, the forum extractor's own record (community, reddit.com) and
\* the social extractor's own record (author handle, x.com); the last-resort
\* record is never answered on the forum or social branch.
C22_FallbackByStrategy ==
    (api.pc = "responded" /\ api.strategy # "none") =>
        LET url == api.request.url
            body == api.response.body
            domain == ReplaceFirst(hostname(url), "www.")
        IN  /\ api.response.status = 200
            /\ (api.strategy = "VideoHost" /\ (YouTubeVideoId(url) = <<>> \/ api.o.kind # "ok"))
                    => body = LastResort(url, domain)
            /\ (api.strategy = "Generic" /\ api.o.kind # "ok")
                    => body = LastResort(url, domain)
            /\ (api.strategy = "ForumDiscussion" /\ api.o.kind # "ok")
                    => /\ body.title = <<"[", "r/">> \o RedditPathSubreddit(url) \o <<"] Post">>
                       /\ body.imageUrl = UNDEF
            /\ (api.strategy = "SocialShortForm" /\ (XTweetId(url) = UNDEF \/ api.o.kind # "ok"))
                    => /\ body.title = <<"Tweet by @">> \o XPathUsername(url)
                       /\ body.imageUrl = UNDEF
            /\ api.strategy = "ForumDiscussion" => body.domain = <<"reddit.com">>
            /\ api.strategy = "SocialShortForm" => body.domain = <<"x.com">>
            /\ api.strategy \in {"ForumDiscussion", "SocialShortForm"}
                    => body # LastResort(url, domain)

\* the forum page answered with an error status and the record names r/tla
C22_Witness ==
    /\ api.pc = "responded"
    /\ api.strategy = "ForumDiscussion"
    /\ api.o.kind = "status"
    /\ api.response.body.title = <<"[", "r/", "tla", "] Post">>
    /\ api.response.body.domain = <<"reddit.com">>

\* C23: on the forum branch, a URL the extractor's regex finds no post
\* identifier in (the match fails as a whole, so the community reads
\* 'unknown') is answered without any outbound fetch.
C23_ForumFailsFast ==
    (api.strategy = "ForumDiscussion" /\ RedditSubreddit(api.request.url) = <<"unknown">>)
        => (api.fetchNo = 0 /\ api.pc # "await")

\* ===================================================================
\* Properties of the generic extraction
\* ===================================================================
\* the first of the sources that is present and not empty, else none
FirstPresent(sources) ==
    LET present == {k \in 1..Len(sources) : sources[k] # UNDEF /\ sources[k] # <<>>}
    IN  IF present = {} THEN UNDEF
        ELSE sources[CHOOSE k \in present : \A j \in present : k <= j]

\* C24: the generic extractor takes the title from og:title, else
\* twitter:title, else <title>, else the domain; the description from
\* og:description, else twitter:description, else meta description, else
\* nothing; the image from og:image, else twitter:image, else nothing; the
\* favicon from the icon link, else the shortcut-icon link, else the
\* apple-touch-icon link, else the default favicon URL of the domain.
C24_GenericFieldOrder ==
    (api.pc = "responded" /\ api.strategy = "Generic" /\ api.o.kind = "ok") =>
        LET url == api.request.url
            page == api.o.data
            body == api.response.body
            title == FirstPresent(<<page.ogTitle, page.twTitle, page.titleText, body.domain>>)
            description == FirstPresent(<<page.ogDesc, page.twDesc, page.metaDesc>>)
            image == FirstPresent(<<page.ogImage, page.twImage>>)
            icon == FirstPresent(<<page.icon, page.shortcutIcon, page.appleIcon>>)
        IN  /\ body.title = Trim(title)
            /\ body.description = (IF description = UNDEF THEN UNDEF ELSE Trim(description))
            /\ body.imageUrl = (IF image = UNDEF THEN UNDEF ELSE MakeAbsolute(image, url))
            /\ body.favicon =
                    (IF icon = UNDEF
                     THEN SCHEME \o <<"www.", "google.com", "/", "s2", "/", "favicons", "?",
                                      "domain=">> \o body.domain \o <<"&", "sz=64">>
                     ELSE MakeAbsolute(icon, url))

\* https://www.example.com/article serving only og:title "Example Article"
C24_Witness ==
    /\ api.pc = "responded"
    /\ api.request.url = GenericUrl
    /\ api.o = Outcome("ok", OgPage)
    /\ api.response.body.title = <<"Example Article">>
    /\ api.response.body.imageUrl = UNDEF
    /\ api.response.body.favicon = DefaultFavicon(<<"example.com">>)
    /\ api.response.body.domain = <<"example.com">>

\* ===================================================================
\* Properties of unparseable input
\* ===================================================================
\* C25 (as the code has it): for an input that does not parse as a URL no
\* strategy is chosen and no outbound fetch is made, and fetchMetadata returns
\* the fallback record whose title and domain are both 'unknown'.
C25_InvalidInputFallback ==
    (api.client # "none" /\ ~IsValidURL(api.input)) =>
        /\ api.strategy = "none"
        /\ api.fetchNo = 0
        /\ api.pc = "responded" => api.response.status = 400
        /\ api.client = "returned" =>
                (~api.result.throws /\ api.result.value = LastResort(api.input, <<"unknown">>))

\* C25 (as stated): for an input that does not parse as a URL, the title and
\* the domain of the record returned are both the empty string.
C25_EmptyPlaceholder ==
    (api.client = "returned" /\ ~IsValidURL(api.input)) =>
        (api.result.value.title = <<>> /\ api.result.value.domain = <<>>)

\* `not a url` was rejected by the handler and fetchMetadata fell back
C25_Witness ==
    /\ api.client = "returned"
    /\ api.input = <<"not", WS, "a", WS, "url">>
    /\ api.strategy = "none"
    /\ api.response = Response(400, ErrorBody("Invalid URL format"))
    /\ api.result.value.domain = <<"unknown">>

\* ===================================================================
\* Properties of what a run writes
\* ===================================================================
\* C26: a candidate whose fetch failed for good keeps the title, description,
\* imageUrl and favicon it had when the run started, and every other field
\* except needsMetadataRefresh (false unless marked again since) and
\* metadataFetchedAt (the time of the failure).
C26_FailureKeepsMetadata ==
    \A r \in RunIds : \A k \in 1..NumCandidates(runs[r]) :
        LET before == runs[r].linksNeedingRefresh[k]
        IN  (runs[r].items[k].state = "Failed" /\ before.id \in StoreIds(canvas)) =>
                LET link == StoreLink(canvas, before.id)
                IN  /\ \A f \in DOMAIN link \ {"needsMetadataRefresh", "metadataFetchedAt"} :
                            link[f] = before[f]
                    /\ link.metadataFetchedAt = runs[r].items[k].at
                    /\ before.id \notin remarked => ~link.needsMetadataRefresh

\* a stale link with stored metadata failed and still shows its old title
C26_Witness ==
    \E r \in RunIds : \E k \in 1..NumCandidates(runs[r]) :
        /\ runs[r].items[k].state = "Failed"
        /\ runs[r].linksNeedingRefresh[k].id \in StoreIds(canvas)
        /\ StoreLink(canvas, runs[r].linksNeedingRefresh[k].id).title = <<"Old title">>
        /\ StoreLink(canvas, runs[r].linksNeedingRefresh[k].id).metadataFetchedAt = <<now>>
        /\ runs[r].linksNeedingRefresh[k].metadataFetchedAt # <<>>

\* C27: a candidate whose page could not be extracted upstream, so that the
\* endpoint had only its fallback record to answer with, is not counted as
\* succeeded and keeps its stored title, description and imageUrl.
C27_FallbackNotApplied ==
    \A r \in RunIds : \A k \in 1..NumCandidates(runs[r]) :
        LET before == runs[r].linksNeedingRefresh[k]
        IN  UpstreamOf(before.url).kind # "ok" =>
                /\ runs[r].items[k].state # "Succeeded"
                /\ before.id \in StoreIds(canvas) =>
                        /\ StoreLink(canvas, before.id).title = before.title
                        /\ StoreLink(canvas, before.id).description = before.description
                        /\ StoreLink(canvas, before.id).imageUrl = before.imageUrl


\* ===================================================================
\* Frame of a refresh run
\* ===================================================================
RefreshedFields ==
    {"title", "description", "imageUrl", "favicon", "metadataFetchedAt",
     "needsMetadataRefresh"}

\* C28: a step of a refresh run changes nothing in the canvas but the fields
\* title, description, imageUrl, favicon, metadataFetchedAt and
\* needsMetadataRefresh of the candidate it is processing: the links stay the
\* same links in the same order (none is added, a deleted one is not
\* re-created), every other field of every link (position, size, url, domain)
\* keeps the value the user's actions left, and so do the connections, the
\* groups and the viewport.
C28_RunFrame ==
    [][\A r \in RunIds :
        runs'[r] # runs[r] =>
            /\ canvas'.loaded = canvas.loaded
            /\ canvas'.connections = canvas.connections
            /\ canvas'.groups = canvas.groups
            /\ canvas'.viewport = canvas.viewport
            /\ Len(canvas'.links) = Len(canvas.links)
            /\ \A n \in 1..Len(canvas.links) :
                /\ \A f \in DOMAIN canvas.links[n] \ RefreshedFields :
                        canvas'.links[n][f] = canvas.links[n][f]
                /\ canvas'.links[n] # canvas.links[n] =>
                        /\ runs[r].pc = "fetch"
                        /\ canvas.links[n].id = CurrentLink(runs[r]).id]_vars

\* a run has refreshed a candidate that the user had dragged away from where
\* the run's snapshot has it: the link keeps the user's position
C28_Witness ==
    \E r \in RunIds : \E k \in 1..NumCandidates(runs[r]) :
        LET before == runs[r].linksNeedingRefresh[k]
        IN  /\ runs[r].items[k].state = "Succeeded"
            /\ before.id \in StoreIds(canvas)
            /\ StoreLink(canvas, before.id).x # before.x
            /\ StoreLink(canvas, before.id).metadataFetchedAt = runs[r].items[k].at


\* ===================================================================
\* Properties of persistence
\* ===================================================================
\* no timer is armed and no storage call is in flight: every save that was
\* due has run to its end
Quiet == storage.timeout = <<>> /\ storage.ops = <<>>

StoredIds == {storage.canvases[n].id : n \in 1..Len(storage.canvases)}

\* C29: once the store's mutations are followed by a quiet period longer than
\* the debounce, the stored copy of every mutated canvas (that was not
\* deleted) equals the last state a mutation gave it in memory: no mutation is
\* lost to a later one that re-armed the shared timer, be it of another canvas.
C29_NoMutationLost ==
    Quiet =>
        \A c \in CanvasIds :
            (storage.last[c] # <<>> /\ c \notin storage.deleted) =>
                \E n \in 1..Len(storage.canvases) :
                    storage.canvases[n] = storage.last[c][1]

\* C30: once deleteCanvas(id) has completed, no storage write makes a canvas
\* with that id reappear in the stored list, neither a debounced save that was
\* pending nor a saveCanvas that had read the list before the delete wrote it.
C30_DeletedStaysDeleted ==
    \A c \in storage.deleted : c \notin StoredIds

====
